---- MODULE Spec2Model ----
(***************************************************************************)
(* A model of the client-side certificate chain construction of the        *)
(* lamassu dashboard (src/app/certificates/details/                         *)
(* CertificateDetailsClient.tsx) and of the ASN.1 decoder hook              *)
(* (src/components/shared/asn1/ASN1DecoderComponent.tsx).                   *)
(***************************************************************************)
EXTENDS Integers, Sequences, FiniteSets, TLC

(***************************************************************************)
(* Bounds of the model.                                                    *)
(***************************************************************************)
\* number of CA ids the enumerated CA lists are drawn over
NumCas == 2
\* length of the one long, acyclic CA list (longer than maxDepth)
DeepLen == 12

(***************************************************************************)
(* Values.                                                                 *)
(***************************************************************************)
\* JavaScript null / undefined
NULL == [null |-> TRUE]

\* CA identifiers and the PEM text of each CA, by index
CaNames == << "ca1", "ca2", "ca3", "ca4", "ca5", "ca6", "ca7", "ca8",
              "ca9", "ca10", "ca11", "ca12", "ca13", "ca14" >>
CaPems == << "PEM-ca1", "PEM-ca2", "PEM-ca3", "PEM-ca4", "PEM-ca5", "PEM-ca6",
             "PEM-ca7", "PEM-ca8", "PEM-ca9", "PEM-ca10", "PEM-ca11",
             "PEM-ca12", "PEM-ca13", "PEM-ca14" >>
LeafPem == "PEM-leaf"

CaIds == { CaNames[i] : i \in 1..NumCas }

\* the values of CA.issuer: an issuer id, the marker, or none (undefined / '')
IssuerVals == CaIds \cup { "Self-signed", "" }

\* a string is truthy in JavaScript iff it is not empty (undefined is "" here)
Truthy(s) == s # ""

RECURSIVE ListOf(_, _)
\* the CA list a choice function describes: the CAs marked present, by index
ListOf(f, i) ==
  IF i = 0 THEN << >>
  ELSE IF f[i].present
       THEN Append(ListOf(f, i - 1),
                   [id |-> CaNames[i], issuer |-> f[i].issuer,
                    pemData |-> IF f[i].hasPem THEN CaPems[i] ELSE ""])
       ELSE ListOf(f, i - 1)

CaOptions == [present : BOOLEAN, issuer : IssuerVals, hasPem : BOOLEAN]

SmallCaLists == { ListOf(f, NumCas) : f \in [1..NumCas -> CaOptions] }

\* ca1 <- ca2 <- ... <- ca(DeepLen), the last one a self-referencing root
DeepChainList ==
  [i \in 1..DeepLen |->
     [id |-> CaNames[i],
      issuer |-> IF i = DeepLen THEN CaNames[i] ELSE CaNames[i + 1],
      pemData |-> CaPems[i]]]

CaLists == SmallCaLists \cup { DeepChainList }

\* the certificates the API can return: issuer_metadata.id and the PEM
Certificates == [issuerCaId : CaIds \cup {""}, pemData : {"", LeafPem}]

\* number of decode calls issued in one behaviour
MaxCalls == 2
\* length of the plain texts handed to the functions of decode
MaxTextLen == 3
\* length of the body of the armored texts
MaxBodyLen == 4
\* lines of a hex dump, byte tokens of a line, end of a hovered byte range
MaxDumpLines == 3
MaxRowBytes == 2
MaxHoverEnd == 3
\* offset of a decoded element in its buffer
MaxOffset == 2
\* the least length of a string that holds marks
MinMarkedLength == 16
\* lines of a structure text
MaxOutlineLines == 3
\* device lookups awaited at one time
MaxLookups == 2

\* The texts the decoder is driven with, as sequences of characters:
\*   3000  an empty SEQUENCE
\*   3005  a SEQUENCE that declares five content bytes and has none
DecodeTexts ==
  { << "3", "0", "0", "0" >>, << "3", "0", "0", "5" >> }

(***************************************************************************)
(* Program constants.                                                      *)
(***************************************************************************)
\* const maxDepth = 10 of the visualizer walk
maxDepth == 10
\* const maxDepth = 10 of buildCertificateChainPem
pemMaxDepth == 10

\* the characters of the separator literal '\\n\\n' as the source writes it:
\* an escaped backslash followed by the letter n, twice
JoinSeparator == << "\\", "n", "\\", "n" >>

(***************************************************************************)
(* State.                                                                  *)
(***************************************************************************)
VARIABLES
  certificateDetails,            \* useState<CertificateData | null>
  allCAs,                        \* useState<CA[]>
  isLoadingCert,                 \* useState(true)
  isLoadingDependencies,         \* useState(true)
  errorCert,                     \* useState<string | null>, "" for null
  errorDependencies,             \* useState<string | null>, "" for null
  pc,                            \* position of the render in progress
  chain,                         \* buildCertificateChainPem: chain
  pemIssuerId,                   \* buildCertificateChainPem: currentIssuerId
  pemSafetyNet,                  \* buildCertificateChainPem: safetyNet
  fullChainPemString,            \* the memo, as a sequence of text pieces
  path,                          \* visualizer walk: path
  currentIssuerId,               \* visualizer walk: currentIssuerId
  safetyNet,                     \* visualizer walk: safetyNet
  certificateChainForVisualizer, \* the memo
  lookups,                       \* findCaById calls of the last visualizer walk
  vizStop,                       \* how the last visualizer walk left its loop
  isLoading,                     \* useASN1Decoder: useState(false)
  error,                         \* useASN1Decoder: useState('')
  decodedData,                   \* useASN1Decoder: useState(null)
  definitions,                   \* useASN1Decoder: useState([])
  selectedDefinition,            \* useASN1Decoder: useState('')
  wantHex,                       \* useASN1Decoder: useState(true)
  trimHex,                       \* useASN1Decoder: useState(true)
  wantDef,                       \* useASN1Decoder: useState(true)
  calls,                         \* the decodeText / decodeFile calls issued
  timers,                        \* the pending 500 ms timers, first to fire first
  inputText,                     \* a text handed to the functions of decode
  textPc,                        \* which of them have been applied to it
  normalized,                    \* getBytesFromData(inputText)
  base64Text,                    \* generateBase64(inputText)
  reNormalized,                  \* getBytesFromData(base64Text)
  mockTypes,                     \* detectContentType(inputText), sorted
  parsedAsn1,                    \* parsedAsn1 of decode, by the value of wantDef
  hexLines,                      \* formatHexDump: hexDump.split('\n')
  hoveredByteRange,              \* useState<{ start, end } | null>(null)
  lineIndex,                     \* formatHexDump: lines of the map done
  absoluteByteIndex,             \* formatHexDump: absoluteByteIndex
  renderedBytes,                 \* formatHexDump: the byte spans rendered
  element,                       \* a decoded ASN.1 element
  structureLine,                 \* its line of the structure text
  treeNode,                      \* parseASN1Tree: the node of the line
  headerHex,                     \* extractHexFromLine(node.line)
  treePc,                        \* which of them have been computed
  expandedNodes,                 \* useState<Set<string>>(new Set())
  hexValue,                      \* decomposeTagByte: its argument
  decomposed,                    \* decomposeTagByte: what it returned
  structureLines,                \* structure.split('\n').filter(...): lines
  outlinePc,                     \* which of the two functions is running
  treeIndex,                     \* parseASN1Tree: lines of forEach done
  nodeOf,                        \* parseASN1Tree: the node objects, by line
  rootNodes,                     \* parseASN1Tree: nodes
  parentStack,                   \* parseASN1Tree: stack
  braceIndex,                    \* convertToDerDecoderFormat: i
  braceResult,                   \* convertToDerDecoderFormat: result
  braceStack,                    \* convertToDerDecoderFormat: braceStack
  accessToken,                   \* useAuth: user?.access_token, "" for none
  certificateId,                 \* searchParams.get('certificateId')
  canDelete,                     \* useState(false)
  isCheckingUsage,               \* useState(true)
  deviceLookups,                 \* the fetchDeviceById calls awaited
  deletionDeps,                  \* the dependencies the effect last ran with
  enabledBy,                     \* the lookup whose answer set canDelete
  lamassuConfig,                 \* window.lamassuConfig
  config,                        \* ConfigProvider: useState(null)
  isConfigLoaded,                \* ConfigProvider: useState(false)
  configIsLoading,               \* ConfigProvider: isLoading, useState(true)
  pollInterval,                  \* the effect: pollInterval
  attemptCount,                  \* the effect: attemptCount
  activeTimers,                  \* the intervals set and not cleared
  effectLoaded                   \* isConfigLoaded of the render of the effect

chainVars == << certificateDetails, allCAs, isLoadingCert, isLoadingDependencies,
                errorCert, errorDependencies, pc, chain, pemIssuerId,
                pemSafetyNet, fullChainPemString, path, currentIssuerId,
                safetyNet, certificateChainForVisualizer, lookups, vizStop >>

decodeVars == << isLoading, error, decodedData, definitions,
                 selectedDefinition, wantHex, trimHex, wantDef, calls, timers >>

textVars == << inputText, textPc, normalized, base64Text, reNormalized,
               mockTypes, parsedAsn1 >>

hexVars == << hexLines, hoveredByteRange, lineIndex, absoluteByteIndex,
              renderedBytes >>

treeVars == << element, structureLine, treeNode, headerHex, treePc >>

viewVars == << expandedNodes >>

tagVars == << hexValue, decomposed >>

\* the parts of the pages outside the decoder's hook and its views
outlineVars == << structureLines, outlinePc, treeIndex, nodeOf, rootNodes,
                 parentStack, braceIndex, braceResult, braceStack >>

deleteVars == << accessToken, certificateId, canDelete, isCheckingUsage,
                 deviceLookups, deletionDeps, enabledBy >>

configVars == << lamassuConfig, config, isConfigLoaded, configIsLoading,
                 pollInterval, attemptCount, activeTimers, effectLoaded >>

restVars == << tagVars, outlineVars, deleteVars, configVars >>

pureVars == << textVars, hexVars, treeVars, viewVars, restVars >>

\* what the decomposition of a tag byte leaves alone
outsideTag == << chainVars, decodeVars, textVars, hexVars, treeVars,
                viewVars, outlineVars, deleteVars, configVars >>

\* what the two readings of a structure text leave alone
outsideOutline == << chainVars, decodeVars, textVars, hexVars, treeVars,
                    viewVars, tagVars, deleteVars, configVars >>

\* what the deletion check leaves alone
outsideDelete == << decodeVars, textVars, hexVars, treeVars, viewVars,
                   tagVars, outlineVars, configVars >>

\* what the configuration provider leaves alone
outsideConfig == << chainVars, decodeVars, textVars, hexVars, treeVars,
                   viewVars, tagVars, outlineVars, deleteVars >>

\* what the functions applied to a text leave alone
outsideText == << chainVars, decodeVars, hexVars, treeVars, viewVars,
                 restVars >>

\* what the rendering of the hex dump leaves alone
outsideHex == << chainVars, decodeVars, textVars, treeVars, viewVars,
                restVars >>

\* what the functions applied to a structure line leave alone
outsideTree == << chainVars, decodeVars, textVars, hexVars, viewVars,
                 restVars >>

vars == << chainVars, decodeVars, pureVars >>

(***************************************************************************)
(* Helpers of the two walks.                                               *)
(***************************************************************************)
\* findCaById(id, allCAs) of @/lib/ca-data: the CA with that id, or null
findCaById(id, cas) ==
  IF \E i \in 1..Len(cas) : cas[i].id = id
  THEN cas[CHOOSE i \in 1..Len(cas) :
             cas[i].id = id /\ \A j \in 1..(i - 1) : cas[j].id # id]
  ELSE NULL

RECURSIVE Join(_, _)
\* Array.prototype.join over text pieces
Join(pieces, sep) ==
  IF Len(pieces) = 0 THEN << >>
  ELSE IF Len(pieces) = 1 THEN << pieces[1] >>
  ELSE << pieces[1] >> \o sep \o Join(Tail(pieces), sep)

\* the loop condition with the bound compared by <= (one hop too many)
VizLoopGuardInclusive(issuerId, sn) == Truthy(issuerId) /\ sn <= maxDepth

\* while (currentIssuerId && safetyNet < maxDepth)
VizLoopGuard(issuerId, sn) == Truthy(issuerId) /\ sn < maxDepth

\* the loop body without its not-found guard
VizNotFoundUnguarded(issuerCa) == FALSE

\* if (!issuerCa) break;
VizNotFound(issuerCa) == issuerCa = NULL

\* the self-signed test without the 'Self-signed' marker
VizIsSelfSignedNoMarker(issuerCa) ==
  \/ ~Truthy(issuerCa.issuer)
  \/ issuerCa.id = issuerCa.issuer

\* the self-signed test without the comparison of the issuer with the own id
VizIsSelfSignedNoOwnId(issuerCa) ==
  \/ issuerCa.issuer = "Self-signed"
  \/ ~Truthy(issuerCa.issuer)

\* issuerCa.issuer === 'Self-signed' || !issuerCa.issuer || issuerCa.id === issuerCa.issuer
VizIsSelfSigned(issuerCa) ==
  \/ issuerCa.issuer = "Self-signed"
  \/ ~Truthy(issuerCa.issuer)
  \/ issuerCa.id = issuerCa.issuer

\* path.push(issuerCa) in place of unshift
VizPush(p, issuerCa) == Append(p, issuerCa)

\* path.unshift(issuerCa)
VizUnshift(p, issuerCa) == << issuerCa >> \o p

\* the loop body with the self-signed test moved before the unshift
VizIterationBreakFirst(p, issuerId, sn, cas) ==
  LET issuerCa == findCaById(issuerId, cas) IN
  IF VizNotFound(issuerCa)
  THEN [path |-> p, currentIssuerId |-> issuerId, safetyNet |-> sn,
        exit |-> "notFound"]
  ELSE IF VizIsSelfSigned(issuerCa)
  THEN [path |-> p, currentIssuerId |-> issuerId, safetyNet |-> sn,
        exit |-> "selfSigned"]
  ELSE [path |-> VizUnshift(p, issuerCa), currentIssuerId |-> issuerCa.issuer,
        safetyNet |-> sn + 1, exit |-> "continue"]

\* One pass through the body of the visualizer loop, from the lookup to the
\* break or to the end of the body. exit says how the body was left.
VizIteration(p, issuerId, sn, cas) ==
  LET issuerCa == findCaById(issuerId, cas) IN
  IF VizNotFound(issuerCa)
  THEN [path |-> p, currentIssuerId |-> issuerId, safetyNet |-> sn,
        exit |-> "notFound"]
  ELSE IF issuerCa = NULL
  THEN \* a property read of undefined throws
       [path |-> p, currentIssuerId |-> issuerId, safetyNet |-> sn,
        exit |-> "error"]
  ELSE IF VizIsSelfSigned(issuerCa)
  THEN [path |-> VizUnshift(p, issuerCa), currentIssuerId |-> issuerId,
        safetyNet |-> sn, exit |-> "selfSigned"]
  ELSE [path |-> VizUnshift(p, issuerCa), currentIssuerId |-> issuerCa.issuer,
        safetyNet |-> sn + 1, exit |-> "continue"]

\* while (currentIssuerId && safetyNet < maxDepth) of buildCertificateChainPem
PemLoopGuard(issuerId, sn) == Truthy(issuerId) /\ sn < pemMaxDepth

\* if (!issuerCa || !issuerCa.pemData) break;
PemNotFound(issuerCa) ==
  IF issuerCa = NULL THEN TRUE ELSE ~Truthy(issuerCa.pemData)

\* the self-signed test of buildCertificateChainPem
PemIsSelfSigned(issuerCa) ==
  \/ issuerCa.issuer = "Self-signed"
  \/ ~Truthy(issuerCa.issuer)
  \/ issuerCa.id = issuerCa.issuer

\* One pass through the body of the loop of buildCertificateChainPem.
PemIteration(c, issuerId, sn, cas) ==
  LET issuerCa == findCaById(issuerId, cas) IN
  IF PemNotFound(issuerCa)
  THEN [chain |-> c, currentIssuerId |-> issuerId, safetyNet |-> sn,
        exit |-> "notFound"]
  ELSE IF issuerCa = NULL
  THEN [chain |-> c, currentIssuerId |-> issuerId, safetyNet |-> sn,
        exit |-> "error"]
  ELSE IF PemIsSelfSigned(issuerCa)
  THEN [chain |-> Append(c, issuerCa.pemData), currentIssuerId |-> issuerId,
        safetyNet |-> sn, exit |-> "selfSigned"]
  ELSE [chain |-> Append(c, issuerCa.pemData),
        currentIssuerId |-> issuerCa.issuer, safetyNet |-> sn + 1,
        exit |-> "continue"]

(***************************************************************************)
(* Initial state: the first render, before anything is loaded.             *)
(***************************************************************************)
ChainInit ==
  /\ certificateDetails = NULL
  /\ allCAs = << >>
  /\ isLoadingCert = TRUE
  /\ isLoadingDependencies = TRUE
  /\ errorCert = ""
  /\ errorDependencies = ""
  /\ pc = "idle"
  /\ chain = << >>
  /\ pemIssuerId = ""
  /\ pemSafetyNet = 0
  /\ fullChainPemString = << >>
  /\ path = << >>
  /\ currentIssuerId = ""
  /\ safetyNet = 0
  /\ certificateChainForVisualizer = << >>
  /\ lookups = 0
  /\ vizStop = "noInput"

pemLocals == << chain, pemIssuerId, pemSafetyNet >>
vizLocals == << path, currentIssuerId, safetyNet >>
memos == << fullChainPemString, certificateChainForVisualizer, lookups, vizStop >>

(***************************************************************************)
(* Loading: loadCertificate and loadDependencies.                          *)
(***************************************************************************)
\* loadCertificate, the fetch returned the certificate: setCertificateDetails,
\* then the finally. The page loads its certificate once.
LoadCertificateFound(c) ==
  /\ pc = "idle"
  /\ isLoadingCert
  /\ certificateDetails' = c
  /\ isLoadingCert' = FALSE
  /\ pc' = "pemMemo"
  /\ UNCHANGED << allCAs, isLoadingDependencies, errorCert, errorDependencies,
                  pemLocals, vizLocals, memos >>
  /\ UNCHANGED << decodeVars, pureVars >>

\* loadCertificate, the fetch returned no certificate or threw: setErrorCert,
\* then the finally
LoadCertificateFailed ==
  /\ pc = "idle"
  /\ isLoadingCert
  /\ errorCert' = "Failed to load certificate details."
  /\ isLoadingCert' = FALSE
  /\ UNCHANGED << certificateDetails, allCAs, isLoadingDependencies,
                  errorDependencies, pc, pemLocals, vizLocals, memos >>
  /\ UNCHANGED << decodeVars, pureVars >>

\* loadDependencies, the fetch succeeded: setAllCAs, then the finally
LoadDependenciesDone(cas) ==
  /\ pc = "idle"
  /\ isLoadingDependencies
  /\ allCAs' = cas
  /\ isLoadingDependencies' = FALSE
  /\ pc' = "pemMemo"
  /\ UNCHANGED << certificateDetails, isLoadingCert, errorCert,
                  errorDependencies, pemLocals, vizLocals, memos >>
  /\ UNCHANGED << decodeVars, pureVars >>

\* loadDependencies, the fetch threw: setErrorDependencies, then the finally
LoadDependenciesFailed ==
  /\ pc = "idle"
  /\ isLoadingDependencies
  /\ errorDependencies' = "Failed to load CA list and engines for chain building."
  /\ isLoadingDependencies' = FALSE
  /\ UNCHANGED << certificateDetails, allCAs, isLoadingCert, errorCert, pc,
                  pemLocals, vizLocals, memos >>
  /\ UNCHANGED << decodeVars, pureVars >>

(***************************************************************************)
(* The render after a change of certificateDetails or allCAs: the memo     *)
(* fullChainPemString first, then certificateChainForVisualizer.           *)
(***************************************************************************)
\* fullChainPemString up to the loop of buildCertificateChainPem
PemMemoBegin ==
  /\ pc = "pemMemo"
  /\ IF certificateDetails # NULL /\ Len(allCAs) > 0
     THEN IF ~Truthy(certificateDetails.pemData)
          THEN /\ fullChainPemString' = << >>
               /\ pc' = "vizMemo"
               /\ UNCHANGED pemLocals
          ELSE /\ chain' = << certificateDetails.pemData >>
               /\ pemIssuerId' = certificateDetails.issuerCaId
               /\ pemSafetyNet' = 0
               /\ pc' = "pemLoop"
               /\ UNCHANGED fullChainPemString
     ELSE /\ fullChainPemString' = << >>
          /\ pc' = "vizMemo"
          /\ UNCHANGED pemLocals
  /\ UNCHANGED << certificateDetails, allCAs, isLoadingCert,
                  isLoadingDependencies, errorCert, errorDependencies,
                  vizLocals, certificateChainForVisualizer, lookups, vizStop >>
  /\ UNCHANGED << decodeVars, pureVars >>

\* one evaluation of the loop condition of buildCertificateChainPem and, when
\* it holds, one pass through the body; on leaving the loop, the return
PemStep ==
  /\ pc = "pemLoop"
  /\ IF PemLoopGuard(pemIssuerId, pemSafetyNet)
     THEN LET r == PemIteration(chain, pemIssuerId, pemSafetyNet, allCAs) IN
          IF r.exit = "continue"
          THEN /\ chain' = r.chain
               /\ pemIssuerId' = r.currentIssuerId
               /\ pemSafetyNet' = r.safetyNet
               /\ UNCHANGED << fullChainPemString, pc >>
          ELSE IF r.exit = "error"
          THEN /\ pc' = "error"
               /\ UNCHANGED << pemLocals, fullChainPemString >>
          ELSE /\ fullChainPemString' = Join(r.chain, JoinSeparator)
               /\ chain' = << >>
               /\ pemIssuerId' = ""
               /\ pemSafetyNet' = 0
               /\ pc' = "vizMemo"
     ELSE /\ fullChainPemString' = Join(chain, JoinSeparator)
          /\ chain' = << >>
          /\ pemIssuerId' = ""
          /\ pemSafetyNet' = 0
          /\ pc' = "vizMemo"
  /\ UNCHANGED << certificateDetails, allCAs, isLoadingCert,
                  isLoadingDependencies, errorCert, errorDependencies,
                  vizLocals, certificateChainForVisualizer, lookups, vizStop >>
  /\ UNCHANGED << decodeVars, pureVars >>

\* certificateChainForVisualizer up to its loop
VizMemoBegin ==
  /\ pc = "vizMemo"
  /\ lookups' = 0
  /\ IF certificateDetails = NULL \/ Len(allCAs) = 0
     THEN /\ certificateChainForVisualizer' = << >>
          /\ vizStop' = "noInput"
          /\ pc' = "idle"
          /\ UNCHANGED vizLocals
     ELSE /\ path' = << >>
          /\ currentIssuerId' = certificateDetails.issuerCaId
          /\ safetyNet' = 0
          /\ vizStop' = "running"
          /\ pc' = "vizLoop"
          /\ UNCHANGED certificateChainForVisualizer
  /\ UNCHANGED << certificateDetails, allCAs, isLoadingCert,
                  isLoadingDependencies, errorCert, errorDependencies,
                  pemLocals, fullChainPemString >>
  /\ UNCHANGED << decodeVars, pureVars >>

\* one evaluation of the loop condition of the visualizer walk and, when it
\* holds, one pass through the body; on leaving the loop, the return
VizStep ==
  /\ pc = "vizLoop"
  /\ IF VizLoopGuard(currentIssuerId, safetyNet)
     THEN LET r == VizIteration(path, currentIssuerId, safetyNet, allCAs) IN
          /\ lookups' = lookups + 1
          /\ IF r.exit = "continue"
             THEN /\ path' = r.path
                  /\ currentIssuerId' = r.currentIssuerId
                  /\ safetyNet' = r.safetyNet
                  /\ UNCHANGED << certificateChainForVisualizer, vizStop, pc >>
             ELSE IF r.exit = "error"
             THEN /\ pc' = "error"
                  /\ vizStop' = "error"
                  /\ UNCHANGED << vizLocals, certificateChainForVisualizer >>
             ELSE /\ certificateChainForVisualizer' = r.path
                  /\ vizStop' = r.exit
                  /\ path' = << >>
                  /\ currentIssuerId' = ""
                  /\ safetyNet' = 0
                  /\ pc' = "idle"
     ELSE /\ certificateChainForVisualizer' = path
          /\ vizStop' = IF Truthy(currentIssuerId) THEN "depth" ELSE "noIssuer"
          /\ path' = << >>
          /\ currentIssuerId' = ""
          /\ safetyNet' = 0
          /\ pc' = "idle"
          /\ UNCHANGED lookups
  /\ UNCHANGED << certificateDetails, allCAs, isLoadingCert,
                  isLoadingDependencies, errorCert, errorDependencies,
                  pemLocals, fullChainPemString >>
  /\ UNCHANGED << decodeVars, pureVars >>

(***************************************************************************)
(* The ASN.1 decoder hook useASN1Decoder and the handlers of the component *)
(* that call it.                                                           *)
(***************************************************************************)
\* const maxLength = 10240
maxLength == 10240
\* const maxHexLength = 512
maxHexLength == 512

\* a thrown exception, as the value of the expression that throws
Thrown(msg) == [ok |-> FALSE, message |-> msg]

Returned(v) == [ok |-> TRUE, value |-> v]

\* Texts are sequences of characters. The characters \s matches, among the
\* characters the inputs are made of
WhiteChars == { " ", "\n" }

HexDigitChars == << "0", "1", "2", "3", "4", "5", "6", "7", "8", "9",
                    "A", "B", "C", "D", "E", "F",
                    "a", "b", "c", "d", "e", "f" >>

IsHexDigit(ch) == \E i \in 1..22 : HexDigitChars[i] = ch

HexVal(ch) ==
  LET i == CHOOSE k \in 1..22 : HexDigitChars[k] = ch IN
  IF i > 16 THEN i - 7 ELSE i - 1

Base64Chars == << "A", "B", "C", "D", "E", "F", "G", "H", "I", "J", "K", "L",
                  "M", "N", "O", "P", "Q", "R", "S", "T", "U", "V", "W", "X",
                  "Y", "Z", "a", "b", "c", "d", "e", "f", "g", "h", "i", "j",
                  "k", "l", "m", "n", "o", "p", "q", "r", "s", "t", "u", "v",
                  "w", "x", "y", "z", "0", "1", "2", "3", "4", "5", "6", "7",
                  "8", "9", "+", "/" >>

IsBase64Char(ch) == \E i \in 1..64 : Base64Chars[i] = ch

Base64Val(ch) == (CHOOSE i \in 1..64 : Base64Chars[i] = ch) - 1

\* String.prototype.charCodeAt for the characters the inputs are made of
charCodeAt(ch) ==
  IF IsBase64Char(ch)
  THEN LET v == Base64Val(ch) IN
       IF v < 26 THEN 65 + v
       ELSE IF v < 52 THEN 71 + v
       ELSE IF v < 62 THEN v - 4
       ELSE IF v = 62 THEN 43 ELSE 47
  ELSE IF ch = " " THEN 32
  ELSE IF ch = "\n" THEN 10
  ELSE IF ch = "!" THEN 33
  ELSE IF ch = "#" THEN 35
  ELSE IF ch = "-" THEN 45
  ELSE IF ch = "." THEN 46
  ELSE IF ch = "=" THEN 61
  ELSE 95

RECURSIVE trimStart(_)
trimStart(t) ==
  IF t # << >> /\ Head(t) \in WhiteChars THEN trimStart(Tail(t)) ELSE t

RECURSIVE trimEnd(_)
trimEnd(t) ==
  IF t # << >> /\ t[Len(t)] \in WhiteChars
  THEN trimEnd(SubSeq(t, 1, Len(t) - 1)) ELSE t

\* String.prototype.trim
trim(t) == trimEnd(trimStart(t))

\* the pattern p occurs in the text t at index i
OccursAt(t, p, i) ==
  /\ i + Len(p) - 1 <= Len(t)
  /\ SubSeq(t, i, i + Len(p) - 1) = p

\* String.prototype.includes
includes(t, p) == \E i \in 1..Len(t) : OccursAt(t, p, i)

BeginMark == << "-", "-", "-", "-", "-", "B", "E", "G", "I", "N" >>
EndMark == << "-", "-", "-", "-", "-", "E", "N", "D" >>
FiveDashes == << "-", "-", "-", "-", "-" >>

\* the index of the first '-' of t at or after index j, Len(t) + 1 if none
FirstDash(t, j) ==
  IF \E k \in j..Len(t) : t[k] = "-"
  THEN CHOOSE k \in j..Len(t) :
         t[k] = "-" /\ \A m \in j..(k - 1) : t[m] # "-"
  ELSE Len(t) + 1

\* /mark[^-]+-----/ matched at index i: the index after the match, 0 if the
\* pattern does not match there
ArmorMatchEnd(t, mark, i) ==
  IF ~OccursAt(t, mark, i) THEN 0
  ELSE LET j == i + Len(mark)
           k == FirstDash(t, j)
       IN  IF k > j /\ OccursAt(t, FiveDashes, k) THEN k + 5 ELSE 0

\* replace(/mark[^-]+-----/, ''): the first match removed
StripArmor(t, mark) ==
  LET starts == { i \in 1..Len(t) : ArmorMatchEnd(t, mark, i) # 0 } IN
  IF starts = {} THEN t
  ELSE LET i == CHOOSE m \in starts : \A n \in starts : m <= n IN
       SubSeq(t, 1, i - 1) \o SubSeq(t, ArmorMatchEnd(t, mark, i), Len(t))

NotWhite(ch) == ch \notin WhiteChars

\* replace(/\s/g, '')
StripWhite(t) == SelectSeq(t, NotWhite)

RECURSIVE HexPairs(_)
\* the bytes of a text of an even number of hex digits
HexPairs(d) ==
  IF d = << >> THEN << >>
  ELSE << 16 * HexVal(d[1]) + HexVal(d[2]) >> \o HexPairs(Tail(Tail(d)))

\* Hex.decode of @lapo/asn1js: blanks are skipped, any other character that
\* is not a hex digit throws, an odd number of digits throws
HexDecode(text) ==
  LET digits == StripWhite(text) IN
  IF \E i \in 1..Len(digits) : ~IsHexDigit(digits[i])
  THEN Thrown("Illegal character")
  ELSE IF Len(digits) % 2 = 1
  THEN Thrown("Hex encoding incomplete: 4 bits missing")
  ELSE Returned(HexPairs(digits))

\* the part of the text Base64.decode reads: it stops at the first '='
BeforePad(t) ==
  IF \E i \in 1..Len(t) : t[i] = "="
  THEN SubSeq(t, 1, (CHOOSE i \in 1..Len(t) :
                       t[i] = "=" /\ \A m \in 1..(i - 1) : t[m] # "=") - 1)
  ELSE t

RECURSIVE SextetBytes(_)
\* the bytes of a sequence of 6-bit values: three per group of four, one for
\* a rest of two, two for a rest of three
SextetBytes(v) ==
  IF Len(v) < 2 THEN << >>
  ELSE IF Len(v) = 2 THEN << 4 * v[1] + (v[2] \div 16) >>
  ELSE IF Len(v) = 3
  THEN << 4 * v[1] + (v[2] \div 16), 16 * (v[2] % 16) + (v[3] \div 4) >>
  ELSE << 4 * v[1] + (v[2] \div 16), 16 * (v[2] % 16) + (v[3] \div 4),
          64 * (v[3] % 4) + v[4] >> \o SextetBytes(SubSeq(v, 5, Len(v)))

\* Base64.decode of @lapo/asn1js: reading stops at '=', blanks are skipped,
\* any other character outside the alphabet throws, a rest of one character
\* throws
Base64Decode(text) ==
  LET read == StripWhite(BeforePad(text)) IN
  IF \E i \in 1..Len(read) : ~IsBase64Char(read[i])
  THEN Thrown("Illegal character")
  ELSE IF Len(read) % 4 = 1
  THEN Thrown("Base64 encoding incomplete: at least 2 bits missing")
  ELSE Returned(SextetBytes([i \in 1..Len(read) |-> Base64Val(read[i])]))

\* trimmedData.includes('-----BEGIN') && trimmedData.includes('-----END')
IsPemText(text) == includes(text, BeginMark) /\ includes(text, EndMark)

\* /^[0-9A-Fa-f\s]+$/.test(trimmedData)
IsHexText(text) ==
  /\ Len(text) > 0
  /\ \A i \in 1..Len(text) : IsHexDigit(text[i]) \/ text[i] \in WhiteChars

\* the for loop of the catch: the character codes as bytes
RawBytes(text) == [i \in 1..Len(text) |-> charCodeAt(text[i]) % 256]

\* the branch of getBytesFromData that handles the text
EncodingOf(data) ==
  LET trimmedData == trim(data) IN
  IF IsPemText(trimmedData) THEN "pem"
  ELSE IF IsHexText(trimmedData) THEN "hex"
  ELSE IF Base64Decode(trimmedData).ok THEN "base64"
  ELSE "raw"

\* getBytesFromData with the hex test and the Base64 attempt exchanged
getBytesFromDataBase64First(data) ==
  LET trimmedData == trim(data) IN
  IF IsPemText(trimmedData)
  THEN Base64Decode(StripWhite(StripArmor(StripArmor(trimmedData, BeginMark),
                                          EndMark)))
  ELSE IF Base64Decode(trimmedData).ok THEN Base64Decode(trimmedData)
  ELSE IF IsHexText(trimmedData) THEN HexDecode(trimmedData)
  ELSE Returned(RawBytes(trimmedData))

\* getBytesFromData: the bytes of the text, or the exception of Base64.decode
\* on a PEM body or of Hex.decode, which it does not catch
getBytesFromData(data) ==
  LET trimmedData == trim(data) IN
  IF IsPemText(trimmedData)
  THEN Base64Decode(StripWhite(StripArmor(StripArmor(trimmedData, BeginMark),
                                          EndMark)))
  ELSE IF IsHexText(trimmedData) THEN HexDecode(trimmedData)
  ELSE IF Base64Decode(trimmedData).ok THEN Base64Decode(trimmedData)
  ELSE Returned(RawBytes(trimmedData))

RECURSIVE HighTagEnd(_, _)
\* the offset after the last byte of a high-tag-number tag, -1 past the end
HighTagEnd(b, pos) ==
  IF pos >= Len(b) THEN -1
  ELSE IF b[pos + 1] < 128 THEN pos + 1
  ELSE HighTagEnd(b, pos + 1)

RECURSIVE BigEndian(_, _, _)
\* the value of the n bytes that start at offset pos
BigEndian(b, pos, n) ==
  IF n = 0 THEN 0 ELSE 256 * BigEndian(b, pos, n - 1) + b[pos + n]

RECURSIVE Asn1End(_, _)
RECURSIVE Asn1ChildrenEnd(_, _, _)
\* ASN1.decode of @lapo/asn1js at offset pos: the offset after the element,
\* -1 when decoding throws (the tag or the length runs past the end, the
\* count of length bytes is 0 or above 4, the declared length exceeds the
\* bytes that remain, a NULL has content, a child fails or overruns)
Asn1End(b, pos) ==
  IF pos >= Len(b) THEN -1
  ELSE
    LET tag == b[pos + 1]
        lenPos == IF tag % 32 = 31 THEN HighTagEnd(b, pos + 1) ELSE pos + 1
    IN
    IF lenPos = -1 \/ lenPos >= Len(b) THEN -1
    ELSE
      LET first == b[lenPos + 1]
          n == IF first < 128 THEN 0 ELSE first - 128
      IN
      IF first >= 128 /\ (n = 0 \/ n > 4 \/ lenPos + 1 + n > Len(b)) THEN -1
      ELSE
        LET length == IF first < 128 THEN first ELSE BigEndian(b, lenPos + 1, n)
            start == lenPos + 1 + n
            end == start + length
        IN
        IF end > Len(b) THEN -1
        ELSE IF (tag \div 32) % 2 = 1 THEN Asn1ChildrenEnd(b, start, end)
        ELSE IF tag = 5 /\ length > 0 THEN -1
        ELSE end

Asn1ChildrenEnd(b, pos, end) ==
  IF pos = end THEN end
  ELSE LET e == Asn1End(b, pos) IN
       IF e = -1 \/ e > end THEN -1 ELSE Asn1ChildrenEnd(b, e, end)

\* ASN1.decode(stream) followed by toPrettyString(): the structure text of
\* the bytes, or the exception
Asn1PrettyString(bytes) ==
  IF Asn1End(bytes, 0) = -1 THEN Thrown("ASN.1 parsing failed")
  ELSE Returned([kind |-> "structure", bytes |-> bytes])

\* generateASN1Structure with the exception passed on instead of caught
generateASN1StructureRethrows(data) ==
  LET bytes == getBytesFromData(data) IN
  IF ~bytes.ok THEN bytes ELSE Asn1PrettyString(bytes.value)

\* generateASN1Structure: the structure text, or in its catch the text
\* 'Parse Error: ...' with the list of supported formats
generateASN1Structure(data) ==
  LET bytes == getBytesFromData(data)
      text == IF bytes.ok THEN Asn1PrettyString(bytes.value) ELSE bytes
  IN  IF text.ok THEN text
      ELSE Returned([kind |-> "Parse Error", message |-> text.message])

\* generateHexDump: the dump of the first maxHexLength bytes, or in its catch
\* the text 'Hex dump error: ...'
generateHexDump(data) ==
  LET bytes == getBytesFromData(data) IN
  IF bytes.ok
  THEN Returned([kind |-> "hexDump",
                 bytes |-> SubSeq(bytes.value, 1,
                                  IF Len(bytes.value) < maxHexLength
                                  THEN Len(bytes.value) ELSE maxHexLength),
                 more |-> IF Len(bytes.value) > maxHexLength
                          THEN Len(bytes.value) - maxHexLength ELSE 0])
  ELSE Returned([kind |-> "Hex dump error", message |-> bytes.message])

RECURSIVE btoa(_)
\* btoa of the binary string of the bytes: four characters per three bytes,
\* the last group padded with '='
btoa(b) ==
  IF b = << >> THEN << >>
  ELSE IF Len(b) = 1
  THEN << Base64Chars[(b[1] \div 4) + 1], Base64Chars[16 * (b[1] % 4) + 1],
          "=", "=" >>
  ELSE IF Len(b) = 2
  THEN << Base64Chars[(b[1] \div 4) + 1],
          Base64Chars[16 * (b[1] % 4) + (b[2] \div 16) + 1],
          Base64Chars[4 * (b[2] % 16) + 1], "=" >>
  ELSE << Base64Chars[(b[1] \div 4) + 1],
          Base64Chars[16 * (b[1] % 4) + (b[2] \div 16) + 1],
          Base64Chars[4 * (b[2] % 16) + (b[3] \div 64) + 1],
          Base64Chars[(b[3] % 64) + 1] >> \o btoa(SubSeq(b, 4, Len(b)))

\* generateBase64 encoding the characters of the text in place of its bytes
generateBase64OfText(data) ==
  LET bytes == getBytesFromData(data) IN
  IF bytes.ok /\ Len(bytes.value) < maxLength
  THEN Returned(btoa(RawBytes(trim(data))))
  ELSE Returned(<< >>)

\* generateBase64: btoa of the bytes when there are fewer than maxLength,
\* else and in its catch ''
generateBase64(data) ==
  LET bytes == getBytesFromData(data) IN
  IF bytes.ok /\ Len(bytes.value) < maxLength
  THEN Returned(btoa(bytes.value))
  ELSE Returned(<< >>)

\* the keywords detectContentType looks for
KwBeginCertificate ==
  << "B", "E", "G", "I", "N", " ", "C", "E", "R", "T", "I", "F", "I", "C",
     "A", "T", "E" >>
KwCertificate ==
  << "C", "E", "R", "T", "I", "F", "I", "C", "A", "T", "E" >>
KwBeginPrivateKey ==
  << "B", "E", "G", "I", "N", " ", "P", "R", "I", "V", "A", "T", "E", " ",
     "K", "E", "Y" >>
KwPrivateKey ==
  << "P", "R", "I", "V", "A", "T", "E", " ", "K", "E", "Y" >>
KwBeginRsaPrivateKey ==
  << "B", "E", "G", "I", "N", " ", "R", "S", "A", " ", "P", "R", "I", "V",
     "A", "T", "E", " ", "K", "E", "Y" >>
KwBeginCertificateRequest ==
  << "B", "E", "G", "I", "N", " ", "C", "E", "R", "T", "I", "F", "I", "C",
     "A", "T", "E", " ", "R", "E", "Q", "U", "E", "S", "T" >>
KwCsr ==
  << "C", "S", "R" >>
KwPkcs7 ==
  << "P", "K", "C", "S", "7" >>
KwCms ==
  << "C", "M", "S" >>
KwDotP7 ==
  << ".", "p", "7" >>

\* String.prototype.toUpperCase, character by character
toUpperCase(t) ==
  [i \in 1..Len(t) |->
     IF IsBase64Char(t[i]) /\ Base64Val(t[i]) \in 26..51
     THEN Base64Chars[Base64Val(t[i]) - 25]
     ELSE t[i]]

TypeDefinition(description, match) ==
  [description |-> description, match |-> match]

\* the list of the branch of detectContentType the content selects, as
\* written; match is in hundredths
detectContentTypeList(content) ==
  LET upper == toUpperCase(content) IN
  IF includes(upper, KwBeginCertificate) \/ includes(upper, KwCertificate)
  THEN << TypeDefinition("X.509 Certificate", 95),
          TypeDefinition("PKCS#7/CMS Signature", 20),
          TypeDefinition("PKCS#8 Private Key", 10) >>
  ELSE IF includes(upper, KwBeginPrivateKey) \/ includes(upper, KwPrivateKey)
  THEN << TypeDefinition("PKCS#8 Private Key", 92),
          TypeDefinition("PKCS#1 RSA Private Key", 85),
          TypeDefinition("X.509 Certificate", 15) >>
  ELSE IF includes(upper, KwBeginRsaPrivateKey)
  THEN << TypeDefinition("PKCS#1 RSA Private Key", 98),
          TypeDefinition("PKCS#8 Private Key", 75),
          TypeDefinition("X.509 Certificate", 10) >>
  ELSE IF includes(upper, KwBeginCertificateRequest) \/ includes(upper, KwCsr)
  THEN << TypeDefinition("PKCS#10 Certificate Request", 95),
          TypeDefinition("X.509 Certificate", 30),
          TypeDefinition("PKCS#8 Private Key", 15) >>
  ELSE IF \/ includes(upper, KwPkcs7)
          \/ includes(upper, KwCms)
          \/ includes(content, KwDotP7)
  THEN << TypeDefinition("PKCS#7/CMS Signature", 90),
          TypeDefinition("PKCS#7/CMS Encrypted Data", 70),
          TypeDefinition("X.509 Certificate", 25) >>
  ELSE << TypeDefinition("ASN.1 DER Structure", 80),
          TypeDefinition("PKCS#12 Container", 40),
          TypeDefinition("Custom ASN.1 Format", 30) >>

RECURSIVE InsertByMatch(_, _)
\* d placed in the sorted list l, after the entries that match at least as well
InsertByMatch(l, d) ==
  IF l = << >> THEN << d >>
  ELSE IF Head(l).match >= d.match THEN << Head(l) >> \o InsertByMatch(Tail(l), d)
  ELSE << d >> \o l

RECURSIVE SortByMatch(_)
\* sort((a, b) => b.match - a.match): descending match, stable
SortByMatch(l) ==
  IF l = << >> THEN << >>
  ELSE InsertByMatch(SortByMatch(SubSeq(l, 1, Len(l) - 1)), l[Len(l)])

\* detectContentType with the sort ascending
detectContentTypeAscending(content) ==
  LET l == SortByMatch(detectContentTypeList(content)) IN
  [i \in 1..Len(l) |-> l[Len(l) + 1 - i]]

\* detectContentType(der).sort(...): mockTypes
detectContentType(content) == SortByMatch(detectContentTypeList(content))

\* the body of the try of decode, were a weak best guess to end the decode
DecodeBodyGuessGates(der, hex, def) ==
  LET structure == generateASN1Structure(der)
      hexDump == IF hex THEN generateHexDump(der) ELSE Returned(NULL)
      base64 == generateBase64(der)
  IN  IF def /\ detectContentType(der)[1].match < 90
      THEN Thrown("Unknown content type")
      ELSE Returned([content |-> der,
                     structure |-> structure.value,
                     hexDump |-> hexDump.value,
                     base64 |-> base64.value,
                     definitions |-> IF def THEN detectContentType(der)
                                     ELSE << >>])

\* The body of the try of decode after the timer: parsedAsn1, or the
\* exception that one of its steps threw.
DecodeBody(der, hex, def) ==
  LET structure == generateASN1Structure(der)
      hexDump == IF hex THEN generateHexDump(der) ELSE Returned(NULL)
      base64 == generateBase64(der)
  IN  IF ~structure.ok THEN structure
      ELSE IF ~hexDump.ok THEN hexDump
      ELSE IF ~base64.ok THEN base64
      ELSE Returned([content |-> der,
                     structure |-> structure.value,
                     hexDump |-> hexDump.value,
                     base64 |-> base64.value,
                     definitions |-> IF def THEN detectContentType(der)
                                     ELSE << >>])

DecodeInit ==
  /\ isLoading = FALSE
  /\ error = ""
  /\ decodedData = NULL
  /\ definitions = << >>
  /\ selectedDefinition = ""
  /\ wantHex = TRUE
  /\ trimHex = TRUE
  /\ wantDef = TRUE
  /\ calls = << >>
  /\ timers = << >>

\* changeWantHex
ChangeWantHex ==
  /\ wantHex' = ~wantHex
  /\ UNCHANGED << isLoading, error, decodedData, definitions,
                  selectedDefinition, trimHex, wantDef, calls, timers >>
  /\ UNCHANGED << chainVars, pureVars >>

\* changeTrimHex
ChangeTrimHex ==
  /\ trimHex' = ~trimHex
  /\ UNCHANGED << isLoading, error, decodedData, definitions,
                  selectedDefinition, wantHex, wantDef, calls, timers >>
  /\ UNCHANGED << chainVars, pureVars >>

\* changeWantDef
ChangeWantDef ==
  /\ wantDef' = ~wantDef
  /\ UNCHANGED << isLoading, error, decodedData, definitions,
                  selectedDefinition, wantHex, trimHex, calls, timers >>
  /\ UNCHANGED << chainVars, pureVars >>

\* the calls that have settled
Settled == { i \in 1..Len(calls) : calls[i].order > 0 }

\* a call as issued: the text, the way in, the options its closure holds;
\* once settled, its result and its place in the order of settling
NewCall(via, text, stage) ==
  [via |-> via, input |-> text, stage |-> stage,
   wantHex |-> wantHex, wantDef |-> wantDef, result |-> NULL, order |-> 0]

\* handleDecodeText on the enabled button: decodeText up to the await of the
\* timer in decode (setError(''), setIsLoading(true), setError(''))
DecodeTextClick(text) ==
  /\ Len(calls) < MaxCalls
  /\ ~isLoading
  /\ calls' = Append(calls, NewCall("text", text, "waiting"))
  /\ timers' = Append(timers, Len(calls) + 1)
  /\ isLoading' = TRUE
  /\ error' = ""
  /\ UNCHANGED << decodedData, definitions, selectedDefinition, wantHex,
                  trimHex, wantDef >>
  /\ UNCHANGED << chainVars, pureVars >>

\* handleDecodeFile on the enabled button: decodeFile up to the await of
\* file.text() (setError(''))
DecodeFileClick(text) ==
  /\ Len(calls) < MaxCalls
  /\ ~isLoading
  /\ calls' = Append(calls, NewCall("file", text, "reading"))
  /\ error' = ""
  /\ UNCHANGED << isLoading, decodedData, definitions, selectedDefinition,
                  wantHex, trimHex, wantDef, timers >>
  /\ UNCHANGED << chainVars, pureVars >>

\* file.text() has resolved: decode up to the await of its timer
FileRead(i) ==
  /\ calls[i].stage = "reading"
  /\ calls' = [calls EXCEPT ![i].stage = "waiting"]
  /\ timers' = Append(timers, i)
  /\ isLoading' = TRUE
  /\ error' = ""
  /\ UNCHANGED << decodedData, definitions, selectedDefinition, wantHex,
                  trimHex, wantDef >>
  /\ UNCHANGED << chainVars, pureVars >>

\* The try of decode is a function of the text and of the options its
\* closure holds: what it produces, for the texts of the page
DecodeOutcomes ==
  [c \in DecodeTexts \X BOOLEAN \X BOOLEAN |->
     DecodeBody(c[1], c[2], c[3])]

\* the end of a call of decode whose try produced r: setDecodedData,
\* setDefinitions and setSelectedDefinition, or the catch of decodeText /
\* decodeFile (setError); the call settles
SettleCall(i, r) ==
  IF r.ok
  THEN /\ decodedData' = r.value
       /\ definitions' = r.value.definitions
       /\ selectedDefinition' =
            IF calls[i].wantDef /\ Len(r.value.definitions) > 0
            THEN r.value.definitions[1].description
            ELSE IF calls[i].wantDef THEN selectedDefinition
            ELSE ""
       /\ calls' = [calls EXCEPT ![i].stage = "resolved",
                                 ![i].result = r.value,
                                 ![i].order = Cardinality(Settled) + 1]
       /\ UNCHANGED error
  ELSE /\ error' = r.message
       /\ calls' = [calls EXCEPT ![i].stage = "rejected",
                                 ![i].order = Cardinality(Settled) + 1]
       /\ UNCHANGED << decodedData, definitions, selectedDefinition >>

\* the timer of the call at the head of the queue fires: the rest of decode,
\* its catch and finally, and the catch of decodeText / decodeFile
DecodeFinish ==
  /\ Len(timers) > 0
  /\ SettleCall(Head(timers),
                DecodeOutcomes[<< calls[Head(timers)].input,
                                  calls[Head(timers)].wantHex,
                                  calls[Head(timers)].wantDef >>])
  /\ timers' = Tail(timers)
  /\ isLoading' = FALSE
  /\ UNCHANGED << wantHex, trimHex, wantDef >>
  /\ UNCHANGED << chainVars, pureVars >>

\* file.text() has rejected, were the catch of decodeFile to pass the
\* exception on without setError
FileReadFailedSilent(i) ==
  /\ calls[i].stage = "reading"
  /\ calls' = [calls EXCEPT ![i].stage = "rejected",
                            ![i].order = Cardinality(Settled) + 1]
  /\ UNCHANGED << isLoading, error, decodedData, definitions,
                  selectedDefinition, wantHex, trimHex, wantDef, timers >>
  /\ UNCHANGED << chainVars, pureVars >>

\* file.text() has rejected: the catch of decodeFile (setError), decode is
\* never called
FileReadFailed(i) ==
  /\ calls[i].stage = "reading"
  /\ calls' = [calls EXCEPT ![i].stage = "rejected",
                            ![i].order = Cardinality(Settled) + 1]
  /\ error' = "File decoding error"
  /\ UNCHANGED << isLoading, decodedData, definitions, selectedDefinition,
                  wantHex, trimHex, wantDef, timers >>
  /\ UNCHANGED << chainVars, pureVars >>

DecodeNext ==
  \/ ChangeWantHex
  \/ ChangeTrimHex
  \/ ChangeWantDef
  \/ \E text \in DecodeTexts : DecodeTextClick(text)
  \/ \E text \in DecodeTexts : DecodeFileClick(text)
  \/ \E i \in 1..Len(calls) : FileRead(i)
  \/ DecodeFinish

\* the same handlers with files that may fail to be read
OutcomeNext ==
  \/ DecodeNext
  \/ \E i \in 1..Len(calls) : FileReadFailed(i)

(***************************************************************************)
(* The functions of decode, applied to one text: getBytesFromData,         *)
(* generateBase64, getBytesFromData of the Base64 text, detectContentType. *)
(***************************************************************************)
\* the characters plain texts are made of: digits that are hex and Base64
\* alike, a Base64 letter that is no hex digit, the pad, a character outside
\* both alphabets, a blank
PlainChars == { "3", "0", "A", "M", "=", "!", " " }

PlainTexts == UNION { [1..n -> PlainChars] : n \in 0..MaxTextLen }

ArmorLabels ==
  { KwCertificate, KwPrivateKey, SubSeq(KwBeginRsaPrivateKey, 7, 21),
    SubSeq(KwBeginCertificateRequest, 7, 25), KwPkcs7, << "X" >> }

\* -----BEGIN label-----, the body on a line of its own, -----END label-----
Armored(label, body) ==
  BeginMark \o << " " >> \o label \o FiveDashes \o << "\n" >> \o body
    \o << "\n" >> \o EndMark \o << " " >> \o label \o FiveDashes

\* the characters of the bodies: a Base64 letter that is a hex digit, one
\* that is not, a character outside the alphabet
BodyChars == { "A", "M", "!" }

ArmorBodies == UNION { [1..n -> BodyChars] : n \in 0..MaxBodyLen }

ArmoredTexts ==
  { Armored(label, body) : label \in ArmorLabels, body \in ArmorBodies }

\* plain texts that hold a keyword of detectContentType
KeywordTexts ==
  { KwCsr, << "c", "s", "r" >>, KwCms, KwDotP7, << ".", "P", "7" >>,
    << "c", "e", "r", "t", "i", "f", "i", "c", "a", "t", "e" >> }

InputTexts == PlainTexts \cup ArmoredTexts \cup KeywordTexts

\* no text is under the functions
TextIdle ==
  /\ inputText = << >>
  /\ textPc = "off"
  /\ normalized = NULL
  /\ base64Text = NULL
  /\ reNormalized = NULL
  /\ mockTypes = NULL
  /\ parsedAsn1 = [def \in BOOLEAN |-> NULL]

TextInit ==
  /\ inputText \in InputTexts
  /\ textPc = "input"
  /\ normalized = NULL
  /\ base64Text = NULL
  /\ reNormalized = NULL
  /\ mockTypes = NULL
  /\ parsedAsn1 = [def \in BOOLEAN |-> NULL]

\* getBytesFromData(der)
Normalize ==
  /\ textPc = "input"
  /\ normalized' = getBytesFromData(inputText)
  /\ textPc' = "normalized"
  /\ UNCHANGED << inputText, base64Text, reNormalized, mockTypes, parsedAsn1 >>
  /\ UNCHANGED outsideText

\* base64: generateBase64(der)
Encode ==
  /\ textPc = "normalized"
  /\ base64Text' = generateBase64(inputText).value
  /\ textPc' = "encoded"
  /\ UNCHANGED << inputText, normalized, reNormalized, mockTypes, parsedAsn1 >>
  /\ UNCHANGED outsideText

\* the Base64 text handed to the decoder again: getBytesFromData(base64)
Renormalize ==
  /\ textPc = "encoded"
  /\ reNormalized' = getBytesFromData(base64Text)
  /\ textPc' = "renormalized"
  /\ UNCHANGED << inputText, normalized, base64Text, mockTypes, parsedAsn1 >>
  /\ UNCHANGED outsideText

\* detectContentType(der).sort(...)
Guess ==
  /\ textPc # "off"
  /\ mockTypes = NULL
  /\ mockTypes' = detectContentType(inputText)
  /\ UNCHANGED << inputText, textPc, normalized, base64Text, reNormalized,
                  parsedAsn1 >>
  /\ UNCHANGED outsideText

\* the body of the try of decode on the text, with wantDef = def
DecodeWith(def) ==
  /\ textPc = "renormalized"
  /\ mockTypes # NULL
  /\ parsedAsn1[def] = NULL
  /\ parsedAsn1' = [parsedAsn1 EXCEPT ![def] = DecodeBody(inputText, wantHex, def)]
  /\ UNCHANGED << inputText, textPc, normalized, base64Text, reNormalized,
                  mockTypes >>
  /\ UNCHANGED outsideText

TextNext ==
  \/ Normalize
  \/ Encode
  \/ Renormalize
  \/ Guess
  \/ \E def \in BOOLEAN : DecodeWith(def)

(***************************************************************************)
(* formatHexDump: the rendering of the hex dump, line by line, and the     *)
(* hover of a tree node that highlights bytes of it.                       *)
(***************************************************************************)
\* The lines of a dump, by what the tests of formatHexDump find in them:
\*   offset  matches /^([0-9a-fA-F]{4,8}):\s+([0-9a-fA-F\s]+)\s+(.*)$/
\*   plain   does not, and holds two-digit hex tokens
\*   other   does not, and holds none
\*   blank   !line.trim()
\* with the number of byte tokens of the line
DumpLines ==
  [kind : { "offset", "plain" }, hexBytes : 1..MaxRowBytes]
    \cup [kind : { "other", "blank" }, hexBytes : { 0 }]

Dumps == UNION { [1..n -> DumpLines] : n \in 1..MaxDumpLines }

\* the ranges a tree node can hand to handleNodeHover
ByteRanges ==
  { r \in [start : 0..MaxHoverEnd, end : 0..MaxHoverEnd] : r.start < r.end }

\* no dump is being rendered
HexIdle ==
  /\ hexLines = << >>
  /\ hoveredByteRange = NULL
  /\ lineIndex = 0
  /\ absoluteByteIndex = 0
  /\ renderedBytes = << >>

HexInit ==
  /\ hexLines \in Dumps
  /\ hoveredByteRange = NULL
  /\ lineIndex = 0
  /\ absoluteByteIndex = 0
  /\ renderedBytes = << >>

\* currentBytePosition >= start && currentBytePosition < end
isHovered(currentBytePosition) ==
  /\ hoveredByteRange # NULL
  /\ currentBytePosition >= hoveredByteRange.start
  /\ currentBytePosition < hoveredByteRange.end

\* hexBytes.map: one span per byte token of the line at index l
ByteSpans(l, lineStartByteIndex) ==
  [byteIndex \in 1..hexLines[l].hexBytes |->
     [line |-> l,
      byteIndex |-> byteIndex - 1,
      currentBytePosition |-> lineStartByteIndex + (byteIndex - 1),
      isHovered |-> isHovered(lineStartByteIndex + (byteIndex - 1))]]

\* absoluteByteIndex after a line with an offset: the update follows the
\* return statement and is never executed
OffsetLineAdvance(l) == absoluteByteIndex

\* absoluteByteIndex after a plain line: updated before the return
PlainLineAdvance(l) == absoluteByteIndex + hexLines[l].hexBytes

\* one call of the callback of lines.map
FormatLine ==
  /\ lineIndex < Len(hexLines)
  /\ LET l == lineIndex + 1 IN
     /\ lineIndex' = l
     /\ IF hexLines[l].kind = "offset"
        THEN /\ renderedBytes' = renderedBytes \o ByteSpans(l, absoluteByteIndex)
             /\ absoluteByteIndex' = OffsetLineAdvance(l)
        ELSE IF hexLines[l].kind = "plain"
        THEN /\ renderedBytes' = renderedBytes \o ByteSpans(l, absoluteByteIndex)
             /\ absoluteByteIndex' = PlainLineAdvance(l)
        ELSE UNCHANGED << renderedBytes, absoluteByteIndex >>
  /\ UNCHANGED << hexLines, hoveredByteRange >>
  /\ UNCHANGED outsideHex

\* handleNodeHover(byteRange): the component renders again from the first
\* line
HandleNodeHover(byteRange) ==
  /\ hexLines # << >>
  /\ hoveredByteRange' = byteRange
  /\ lineIndex' = 0
  /\ absoluteByteIndex' = 0
  /\ renderedBytes' = << >>
  /\ UNCHANGED hexLines
  /\ UNCHANGED outsideHex

HexNext ==
  \/ FormatLine
  \/ \E byteRange \in ByteRanges \cup { NULL } : HandleNodeHover(byteRange)

(***************************************************************************)
(* One decoded element, its line of the structure text, and what           *)
(* parseASN1Tree and extractHexFromLine make of the line.                  *)
(***************************************************************************)
\* tag bytes: SEQUENCE, SET, INTEGER, NULL, UTF8String, [0] primitive,
\* [0] constructed, [3] constructed
TagBytes == { 48, 49, 2, 5, 12, 128, 160, 163 }

ContentLengths == { 0, 1, 127, 128, 255, 256, 257, 65535, 65536 }

\* What the text of a string holds for the patterns of parseASN1Tree and
\* extractHexFromLine: a mark '[+X]' with its value or -1, a mark 'l=N' with
\* its value or -1, and whether the text ends in a word of hex digits
MarkPositions == { -1, 0, 16, 255 }
MarkLengths == { -1, 0, 5, 127, 128, 255, 256, 257 }

NoContent == [position |-> -1, length |-> -1, hexTail |-> FALSE]

StringContents ==
  [position : MarkPositions, length : MarkLengths, hexTail : BOOLEAN]

\* the content toPrettyString prints for an element: '(n elem)' for a
\* constructed one, the number of an INTEGER, nothing for NULL and for an
\* empty element, the text of a string
ContentsOf(tag, length) ==
  IF tag = 12 /\ length >= MinMarkedLength THEN StringContents
  ELSE IF tag = 2 /\ length > 0
  THEN { [position |-> -1, length |-> -1, hexTail |-> TRUE] }
  ELSE { NoContent }

Elements ==
  { e \in [tag : TagBytes, pos : 0..MaxOffset, length : ContentLengths,
           content : StringContents \cup { NoContent }] :
      /\ e.content \in ContentsOf(e.tag, e.length)
      /\ e.tag = 5 => e.length = 0 }

\* typeName of @lapo/asn1js for the tags above
typeName(tag) ==
  IF tag = 48 THEN "SEQUENCE"
  ELSE IF tag = 49 THEN "SET"
  ELSE IF tag = 2 THEN "INTEGER"
  ELSE IF tag = 5 THEN "NULL"
  ELSE IF tag = 12 THEN "UTF8String"
  ELSE IF tag % 32 = 0 THEN "[0]"
  ELSE "[3]"

\* toPrettyString of @lapo/asn1js for one element: the line
\* 'typeName @pos+length[ (constructed)][: content]'
toPrettyString(e) ==
  [typeName |-> typeName(e.tag), pos |-> e.pos, length |-> e.length,
   constructed |-> (e.tag \div 32) % 2 = 1, content |-> e.content]

RECURSIVE Pow256(_)
Pow256(k) == IF k = 0 THEN 1 ELSE 256 * Pow256(k - 1)

\* Math.ceil(Math.log2(contentLength) / 8) for contentLength > 127: the
\* least k with 256^k >= contentLength
CeilLog2Over8(contentLength) ==
  CHOOSE k \in 1..4 :
    /\ Pow256(k) >= contentLength
    /\ \A j \in 1..(k - 1) : Pow256(j) < contentLength

\* the byte range parseASN1Tree gives the node of a line: byteStart from the
\* mark '[+X]', byteEnd from the mark 'l=N' or two bytes on; none without
\* '[+X]'
ByteRangeOf(line) ==
  IF line.content.position = -1 THEN NULL
  ELSE LET byteStart == line.content.position
           contentLength == line.content.length
       IN  [byteStart |-> byteStart,
            byteEnd |->
              IF contentLength # -1
              THEN byteStart + 1
                     + (IF contentLength > 127
                        THEN CeilLog2Over8(contentLength) + 1 ELSE 1)
                     + contentLength
              ELSE byteStart + 2]

KnownTypes ==
  { "SEQUENCE", "SET", "OBJECT IDENTIFIER", "INTEGER", "BIT STRING",
    "OCTET STRING", "UTF8String", "PrintableString", "UTCTime",
    "GeneralizedTime", "NULL", "BOOLEAN", "ENUMERATED" }

\* getTagByte: the byte of the type; 0x80 + n for [n]
getTagByte(type) ==
  IF type = "SEQUENCE" THEN 48
  ELSE IF type = "SET" THEN 49
  ELSE IF type = "INTEGER" THEN 2
  ELSE IF type = "BIT STRING" THEN 3
  ELSE IF type = "OCTET STRING" THEN 4
  ELSE IF type = "NULL" THEN 5
  ELSE IF type = "OBJECT IDENTIFIER" THEN 6
  ELSE IF type = "UTF8String" THEN 12
  ELSE IF type = "PrintableString" THEN 19
  ELSE IF type = "UTCTime" THEN 23
  ELSE IF type = "GeneralizedTime" THEN 24
  ELSE IF type = "ENUMERATED" THEN 10
  ELSE IF type = "BOOLEAN" THEN 1
  ELSE IF type = "[0]" THEN 128
  ELSE 128 + 3

\* getLengthBytes: short form, or 81, 82, 83 and the bytes of the length
getLengthBytes(length) ==
  IF length < 128 THEN << length >>
  ELSE IF length < 256 THEN << 129, length >>
  ELSE IF length < 65536 THEN << 130, length \div 256, length % 256 >>
  ELSE << 131, length \div 65536, (length % 65536) \div 256, length % 256 >>

\* extractHexFromLine: the hex word the line ends in, else the tag byte and
\* the length bytes of a line 'TYPE @offset+length', else ''
extractHexFromLine(line) ==
  IF line.content.hexTail THEN [kind |-> "content", bytes |-> << >>]
  ELSE IF line.typeName \in KnownTypes \cup { "[0]", "[3]" }
  THEN [kind |-> "header",
        bytes |-> << getTagByte(line.typeName) >> \o getLengthBytes(line.length)]
  ELSE [kind |-> "empty", bytes |-> << >>]

\* no element is under the functions
TreeIdle ==
  /\ element = NULL
  /\ structureLine = NULL
  /\ treeNode = NULL
  /\ headerHex = NULL
  /\ treePc = "off"

TreeInit ==
  /\ element \in Elements
  /\ structureLine = NULL
  /\ treeNode = NULL
  /\ headerHex = NULL
  /\ treePc = "decoded"

\* asn1.toPrettyString()
PrettyPrint ==
  /\ treePc = "decoded"
  /\ structureLine' = toPrettyString(element)
  /\ treePc' = "printed"
  /\ UNCHANGED << element, treeNode, headerHex >>
  /\ UNCHANGED outsideTree

\* parseASN1Tree(structure): the node of the line
ParseLine ==
  /\ treePc = "printed"
  /\ treeNode = NULL
  /\ treeNode' = [line |-> structureLine, range |-> ByteRangeOf(structureLine)]
  /\ UNCHANGED << element, structureLine, headerHex, treePc >>
  /\ UNCHANGED outsideTree

\* extractHexFromLine(node.line) in the row of the node
ExtractHex ==
  /\ treeNode # NULL
  /\ headerHex = NULL
  /\ headerHex' = extractHexFromLine(treeNode.line)
  /\ UNCHANGED << element, structureLine, treeNode, treePc >>
  /\ UNCHANGED outsideTree

TreeNext ==
  \/ PrettyPrint
  \/ ParseLine
  \/ ExtractHex

(***************************************************************************)
(* The tree view of a decoded structure: the rows of TreeNode, the hover   *)
(* of a row and the expansion of the nodes.                                *)
(***************************************************************************)
\* the ids parseASN1Tree gives the nodes of the tree shown
NodeIds == { "node-0", "node-1", "node-2" }

\* the nodes among them with hasChildren
ParentIds == { "node-0", "node-1" }

\* the byte ranges parseASN1Tree finds for a node
NodeRanges ==
  { [byteStart |-> r.start, byteEnd |-> r.end] : r \in ByteRanges }

\* the rows of the tree: byteStart and byteEnd are both set or both undefined
ViewNodes == { [id |-> i, range |-> r] : i \in NodeIds,
                                         r \in NodeRanges \cup { NULL } }

\* no tree is shown
ViewIdle == expandedNodes = { }

\* the state of the hook once decodeText(text) has resolved with r
DecodedState(text, r) ==
  /\ r.ok
  /\ decodedData = r.value
  /\ definitions = r.value.definitions
  /\ selectedDefinition =
       IF Len(r.value.definitions) > 0
       THEN r.value.definitions[1].description ELSE ""
  /\ calls = << [via |-> "text", input |-> text, stage |-> "resolved",
                 wantHex |-> TRUE, wantDef |-> TRUE, result |-> r.value,
                 order |-> 1] >>
  /\ timers = << >>
  /\ isLoading = FALSE
  /\ error = ""
  /\ wantHex = TRUE
  /\ trimHex = TRUE
  /\ wantDef = TRUE

\* the page with the tree of a decoded text, no row hovered, all collapsed
ViewInit ==
  /\ \E text \in DecodeTexts : DecodedState(text, DecodeBody(text, TRUE, TRUE))
  /\ expandedNodes = { }

\* the state setHoveredByteRange(byteRange) leaves, were a range merged into
\* the one that is active
setHoveredByteRangeMerged(prev, byteRange) ==
  IF prev # NULL /\ byteRange # NULL
  THEN [start |-> IF prev.start < byteRange.start
                  THEN prev.start ELSE byteRange.start,
        end |-> IF prev.end > byteRange.end THEN prev.end ELSE byteRange.end]
  ELSE byteRange

\* the state setHoveredByteRange(byteRange) leaves: handleNodeHover
setHoveredByteRange(prev, byteRange) == byteRange

\* handleMouseEnter of the row of node: onHover with the range of the node,
\* nothing for a node without one
HandleMouseEnter(node) ==
  /\ hoveredByteRange' =
       IF node.range # NULL
       THEN setHoveredByteRange(hoveredByteRange,
                                [start |-> node.range.byteStart,
                                 end |-> node.range.byteEnd])
       ELSE hoveredByteRange
  /\ UNCHANGED << hexLines, lineIndex, absoluteByteIndex, renderedBytes >>
  /\ UNCHANGED << chainVars, decodeVars, textVars, treeVars, viewVars,
                  restVars >>

\* handleMouseLeave of a row: onHover(null)
HandleMouseLeave ==
  /\ hoveredByteRange' = setHoveredByteRange(hoveredByteRange, NULL)
  /\ UNCHANGED << hexLines, lineIndex, absoluteByteIndex, renderedBytes >>
  /\ UNCHANGED << chainVars, decodeVars, textVars, treeVars, viewVars,
                  restVars >>

\* toggleNode(nodeId), the click on a row with children
toggleNode(nodeId) ==
  /\ expandedNodes' = IF nodeId \in expandedNodes
                      THEN expandedNodes \ { nodeId }
                      ELSE expandedNodes \cup { nodeId }
  /\ UNCHANGED << chainVars, decodeVars, textVars, hexVars, treeVars,
                  restVars >>

\* expandAll(parseASN1Tree(decodedData.structure))
expandAll ==
  /\ expandedNodes' = ParentIds
  /\ UNCHANGED << chainVars, decodeVars, textVars, hexVars, treeVars,
                  restVars >>

\* collapseAll
collapseAll ==
  /\ expandedNodes' = { }
  /\ UNCHANGED << chainVars, decodeVars, textVars, hexVars, treeVars,
                  restVars >>

ViewNext ==
  \/ \E node \in ViewNodes : HandleMouseEnter(node)
  \/ HandleMouseLeave
  \/ \E nodeId \in ParentIds : toggleNode(nodeId)
  \/ expandAll
  \/ collapseAll
  \/ ChangeWantHex
  \/ ChangeTrimHex
  \/ ChangeWantDef

(***************************************************************************)
(* decomposeTagByte: the parts of a tag byte shown in the colour legend.   *)
(***************************************************************************)
\* the texts of a byte in two hex digits, as the legend passes them
HexBytes == { << HexDigitChars[i], HexDigitChars[j] >> : i, j \in 1..16 }

\* parseInt(hexValue, 16) of a text of hex digits
RECURSIVE parseInt16(_)
parseInt16(t) ==
  IF t = << >> THEN 0
  ELSE 16 * parseInt16(SubSeq(t, 1, Len(t) - 1)) + HexVal(t[Len(t)])

RECURSIVE Pow2(_)
Pow2(n) == IF n = 0 THEN 1 ELSE 2 * Pow2(n - 1)

\* x >> n of a non-negative number
ShiftRight(x, n) == x \div Pow2(n)

\* x & mask for a mask of low bits, 2^k - 1
AndMask(x, mask) == x % (mask + 1)

\* decimal.toString(2).padStart(8, '0') of a number below 256
Binary8(decimal) ==
  [i \in 1..8 |-> IF AndMask(ShiftRight(decimal, 8 - i), 1) = 1
                  THEN "1" ELSE "0"]

classNames == << "Universal", "Application", "Context", "Private" >>

\* decomposeTagByte, were the constructed flag read from bit 4
decomposeTagByteBit4(hex) ==
  LET decimal == parseInt16(hex)
      classBits == AndMask(ShiftRight(decimal, 6), 3)
      constructedBit == AndMask(ShiftRight(decimal, 4), 1)
      tagBits == AndMask(decimal, 31)
  IN  [binary |-> Binary8(decimal),
       class |-> classNames[classBits + 1],
       constructed |-> constructedBit = 1,
       tagNumber |-> tagBits]

\* decomposeTagByte (the colour classes left out)
decomposeTagByte(hex) ==
  LET decimal == parseInt16(hex)
      classBits == AndMask(ShiftRight(decimal, 6), 3)
      constructedBit == AndMask(ShiftRight(decimal, 5), 1)
      tagBits == AndMask(decimal, 31)
  IN  [binary |-> Binary8(decimal),
       class |-> classNames[classBits + 1],
       constructed |-> constructedBit = 1,
       tagNumber |-> tagBits]

\* no tag byte is being decomposed
TagIdle == hexValue = << >> /\ decomposed = NULL

TagInit == hexValue \in HexBytes /\ decomposed = NULL

\* const decomposed = decomposeTagByte(hexValue)
Decompose ==
  /\ hexValue # << >>
  /\ decomposed = NULL
  /\ decomposed' = decomposeTagByte(hexValue)
  /\ UNCHANGED hexValue
  /\ UNCHANGED outsideTag

TagNext == Decompose

(***************************************************************************)
(* The two readings of the indentation of a structure text: the tree of    *)
(* parseASN1Tree and the braces of convertToDerDecoderFormat.              *)
(***************************************************************************)
\* what the lines start with after their blanks: two constructed types and
\* a primitive one
StructureKinds == { "SEQUENCE", "[0]", "INTEGER" }

\* the numbers of blanks the lines start with
IndentWidths == { 0, 1, 2, 4 }

\* structure.split('\n').filter(line => line.trim())
Outlines ==
  UNION { [1..n -> [indent : IndentWidths, kind : StructureKinds]] :
            n \in 1..MaxOutlineLines }

\* no structure text is being read
OutlineIdle ==
  /\ structureLines = << >>
  /\ outlinePc = "off"
  /\ treeIndex = 0
  /\ nodeOf = << >>
  /\ rootNodes = << >>
  /\ parentStack = << >>
  /\ braceIndex = 0
  /\ braceResult = << >>
  /\ braceStack = << >>

OutlineInit ==
  /\ structureLines \in Outlines
  /\ outlinePc = "tree"
  /\ treeIndex = 0
  /\ nodeOf = << >>
  /\ rootNodes = << >>
  /\ parentStack = << >>
  /\ braceIndex = 0
  /\ braceResult = << >>
  /\ braceStack = << >>

\* the test of the while loop that pops the stack, were it to keep the
\* entries of the same level
StackPopsDeeperOnly(level, indentLevel) == level > indentLevel

\* stack[stack.length - 1].level >= indentLevel
StackPops(level, indentLevel) == level >= indentLevel

RECURSIVE PopStack(_, _)
\* while (stack.length > 0 && ...) stack.pop(); the stack holds the lines of
\* its nodes
PopStack(st, indentLevel) ==
  IF st # << >> /\ StackPops(structureLines[st[Len(st)]].indent, indentLevel)
  THEN PopStack(SubSeq(st, 1, Len(st) - 1), indentLevel)
  ELSE st

\* the node of the line at index k - 1; indentLevel is kept in blanks, twice
\* the level of the code, and children holds the lines of the children
NewNode(k) ==
  [id |-> k - 1,
   indentLevel |-> structureLines[k].indent,
   children |-> << >>,
   hasChildren |-> /\ k < Len(structureLines)
                   /\ structureLines[k + 1].indent > structureLines[k].indent]

\* the node pushed to the children of the node on top of the stack
AddChild(objects, parent, k) ==
  [objects EXCEPT ![parent].children = Append(@, k),
                  ![parent].hasChildren = TRUE]

\* one call of the callback of lines.forEach in parseASN1Tree
ParseTreeLine ==
  /\ outlinePc = "tree"
  /\ LET k == treeIndex + 1
         kept == PopStack(parentStack, structureLines[k].indent)
     IN  /\ treeIndex' = k
         /\ nodeOf' = IF kept = << >>
                      THEN Append(nodeOf, NewNode(k))
                      ELSE AddChild(Append(nodeOf, NewNode(k)),
                                    kept[Len(kept)], k)
         /\ rootNodes' = IF kept = << >> THEN Append(rootNodes, k)
                         ELSE rootNodes
         /\ parentStack' = Append(kept, k)
         /\ outlinePc' = IF k = Len(structureLines) THEN "braces" ELSE "tree"
  /\ UNCHANGED << structureLines, braceIndex, braceResult, braceStack >>
  /\ UNCHANGED outsideOutline

\* Math.floor(originalIndent / 4)
BraceLevel(k) == structureLines[k].indent \div 4

RECURSIVE CloseBraces(_, _, _)
\* the while loop after a line that is not the last: the stack it leaves
CloseBraces(st, currentIndentLevel, nextIndentLevel) ==
  IF /\ st # << >>
     /\ st[Len(st)] >= currentIndentLevel
     /\ nextIndentLevel <= st[Len(st)]
  THEN CloseBraces(SubSeq(st, 1, Len(st) - 1), currentIndentLevel,
                   nextIndentLevel)
  ELSE st

\* the lines '}' pushed for the braces popped from st down to kept
ClosingLines(st, kept) ==
  [j \in 1..(Len(st) - Len(kept)) |->
     [entry |-> "}", indent |-> st[Len(st) + 1 - j], line |-> 0]]

\* one pass of the for loop of convertToDerDecoderFormat
ConvertLine ==
  /\ outlinePc = "braces"
  /\ LET k == braceIndex + 1
         opens == structureLines[k].kind \in { "SEQUENCE", "[0]" }
         pushed == IF opens THEN Append(braceStack, BraceLevel(k))
                   ELSE braceStack
         kept == IF k < Len(structureLines)
                 THEN CloseBraces(pushed, BraceLevel(k), BraceLevel(k + 1))
                 ELSE pushed
     IN  /\ braceIndex' = k
         /\ braceResult' =
              Append(braceResult,
                     [entry |-> IF opens THEN "{" ELSE "line",
                      indent |-> BraceLevel(k), line |-> k])
                \o ClosingLines(pushed, kept)
         /\ braceStack' = kept
         /\ outlinePc' = IF k = Len(structureLines) THEN "closing"
                         ELSE "braces"
  /\ UNCHANGED << structureLines, treeIndex, nodeOf, rootNodes, parentStack >>
  /\ UNCHANGED outsideOutline

\* the while loop that closes the remaining braces, and the return
ConvertEnd ==
  /\ outlinePc = "closing"
  /\ braceResult' = braceResult \o ClosingLines(braceStack, << >>)
  /\ braceStack' = << >>
  /\ outlinePc' = "done"
  /\ UNCHANGED << structureLines, treeIndex, nodeOf, rootNodes, parentStack,
                  braceIndex >>
  /\ UNCHANGED outsideOutline

OutlineNext ==
  \/ ParseTreeLine
  \/ ConvertLine
  \/ ConvertEnd

(***************************************************************************)
(* The deletion check of the certificate details page: the effect that     *)
(* runs checkDeletionCriteria, and what changes its dependencies.          *)
(***************************************************************************)
\* user?.access_token: none, or the token of the session
AccessTokens == { "", "token" }

\* the serial numbers the page is opened with
SerialNumbers == { "sn1", "sn2", "sn3" }

\* the certificate the API returns for a serial number: one issued by ca1 to
\* CN=a, one issued by ca2 to CN=b,O=x, one with no issuer id and no subject
ApiCertificate(sn) ==
  IF sn = "sn1"
  THEN [serialNumber |-> sn, issuerCaId |-> "ca1", pemData |-> LeafPem,
        subject |-> << "C", "N", "=", "a" >>, apiStatus |-> "ACTIVE"]
  ELSE IF sn = "sn2"
  THEN [serialNumber |-> sn, issuerCaId |-> "ca2", pemData |-> "",
        subject |-> << "C", "N", "=", "b", ",", "O", "=", "x" >>,
        apiStatus |-> "ACTIVE"]
  ELSE [serialNumber |-> sn, issuerCaId |-> "", pemData |-> "",
        subject |-> << >>, apiStatus |-> "ACTIVE"]

\* the CA lists fetchAndProcessCAs returns to this page: self-signed CAs
\* with their PEM
DeleteCaLists ==
  { cas \in SmallCaLists :
      \A k \in 1..Len(cas) :
        cas[k].issuer = "Self-signed" /\ Truthy(cas[k].pemData) }

\* how a fetchDeviceById call ends: it resolves, or it rejects with an error
\* whose message holds '404', holds 'not found', holds neither, or is empty
DeviceOutcomes ==
  { "resolved", "rejected404", "rejectedNotFound", "rejectedOther",
    "rejectedNoMessage" }

\* error.message && (error.message.includes('404') ||
\*                   error.message.toLowerCase().includes('not found'))
MeansNotFound(outcome) == outcome \in { "rejected404", "rejectedNotFound" }

CnMark == << "C", "N", "=" >>

\* the index of the first ',' of t at or after index j, Len(t) + 1 if none
FirstComma(t, j) ==
  IF \E k \in j..Len(t) : t[k] = ","
  THEN CHOOSE k \in j..Len(t) :
         t[k] = "," /\ \A m \in j..(k - 1) : t[m] # ","
  ELSE Len(t) + 1

\* getCertSubjectCommonName: subject.match(/CN=([^,]+)/), the group or the
\* whole subject
getCertSubjectCommonName(subject) ==
  LET starts == { s \in 1..Len(subject) :
                    /\ OccursAt(subject, CnMark, s)
                    /\ s + 3 <= Len(subject)
                    /\ subject[s + 3] # "," }
  IN  IF starts = { } THEN subject
      ELSE LET s == CHOOSE m \in starts : \A n \in starts : m <= n
           IN  SubSeq(subject, s + 3, FirstComma(subject, s + 3) - 1)

\* certificateDetails.issuerCaId ? findCaById(...) : false, as a condition
IssuerCaExists(details, cas) ==
  IF Truthy(details.issuerCaId)
  THEN findCaById(details.issuerCaId, cas) # NULL
  ELSE FALSE

\* the dependency array of the effect
CurrentDeps ==
  << certificateDetails, allCAs, accessToken, isLoadingCert,
     isLoadingDependencies >>

\* the effect has run for the state that is rendered
EffectSettled == pc = "idle" /\ deletionDeps = CurrentDeps

\* the page is shown with its certificate: no loader, no error
PageShown ==
  /\ ~isLoadingCert /\ ~isLoadingDependencies
  /\ errorCert = "" /\ errorDependencies = ""
  /\ certificateDetails # NULL

\* the page before anything is loaded, opened with the serial number sn
DeleteStart(sn) ==
  /\ accessToken = "token"
  /\ certificateId = sn
  /\ canDelete = FALSE
  /\ isCheckingUsage = TRUE
  /\ deviceLookups = << >>
  /\ deletionDeps = << NULL, << >>, "token", TRUE, TRUE >>
  /\ enabledBy = NULL

DeleteInit == \E sn \in SerialNumbers : DeleteStart(sn)

\* the deletion check is not under observation
DeleteIdle == DeleteStart("sn1")

\* checkDeletionCriteria up to its await, or to its end when it awaits
\* nothing
checkDeletionCriteria ==
  IF certificateDetails = NULL \/ ~Truthy(accessToken) \/ Len(allCAs) = 0
  THEN /\ canDelete' = FALSE
       /\ enabledBy' = NULL
       /\ isCheckingUsage' = IF certificateDetails # NULL /\ Len(allCAs) > 0
                             THEN FALSE
                             ELSE isCheckingUsage
       /\ UNCHANGED deviceLookups
  ELSE IF getCertSubjectCommonName(certificateDetails.subject) # << >>
  THEN /\ Len(deviceLookups) < MaxLookups
       /\ isCheckingUsage' = TRUE
       /\ deviceLookups' =
            Append(deviceLookups,
                   [commonName |->
                      getCertSubjectCommonName(certificateDetails.subject),
                    issuerCaExists |->
                      IssuerCaExists(certificateDetails, allCAs)])
       /\ UNCHANGED << canDelete, enabledBy >>
  ELSE \* no common name: certIsInUse stays true
       /\ canDelete' = FALSE
       /\ enabledBy' = NULL
       /\ isCheckingUsage' = FALSE
       /\ UNCHANGED deviceLookups

\* the effect after a render that changed one of its dependencies
RunDeletionEffect ==
  /\ pc = "idle"
  /\ deletionDeps # CurrentDeps
  /\ deletionDeps' = CurrentDeps
  /\ IF ~isLoadingCert /\ ~isLoadingDependencies
     THEN checkDeletionCriteria
     ELSE UNCHANGED << canDelete, isCheckingUsage, deviceLookups, enabledBy >>
  /\ UNCHANGED << accessToken, certificateId >>
  /\ UNCHANGED chainVars
  /\ UNCHANGED outsideDelete

\* the rest of checkDeletionCriteria: the await of fetchDeviceById returns
\* or throws, then setCanDelete and setIsCheckingUsage(false)
DeviceLookupSettles(k, outcome) ==
  /\ pc = "idle"
  /\ k \in 1..Len(deviceLookups)
  /\ canDelete' = (~deviceLookups[k].issuerCaExists /\ MeansNotFound(outcome))
  /\ enabledBy' = IF ~deviceLookups[k].issuerCaExists /\ MeansNotFound(outcome)
                  THEN deviceLookups[k]
                  ELSE NULL
  /\ isCheckingUsage' = FALSE
  /\ deviceLookups' = SubSeq(deviceLookups, 1, k - 1)
                        \o SubSeq(deviceLookups, k + 1, Len(deviceLookups))
  /\ UNCHANGED << accessToken, certificateId, deletionDeps >>
  /\ UNCHANGED chainVars
  /\ UNCHANGED outsideDelete

\* the loading effect after a change of certificateId or of the token, the
\* user authenticated: loadCertificate and loadDependencies up to their
\* fetches
StartLoading ==
  /\ isLoadingCert' = TRUE
  /\ errorCert' = ""
  /\ isLoadingDependencies' = TRUE
  /\ errorDependencies' = ""
  /\ UNCHANGED << certificateDetails, allCAs, pc, pemLocals, vizLocals, memos >>

\* the page is opened with another serial number
Navigate(sn) ==
  /\ EffectSettled
  /\ ~isLoadingCert /\ ~isLoadingDependencies
  /\ Truthy(accessToken)
  /\ sn # certificateId
  /\ certificateId' = sn
  /\ StartLoading
  /\ UNCHANGED << accessToken, canDelete, isCheckingUsage, deviceLookups,
                  deletionDeps, enabledBy >>
  /\ UNCHANGED outsideDelete

\* the session ends: loadCertificate and loadDependencies take their
\* not-authenticated returns
SignOut ==
  /\ EffectSettled
  /\ ~isLoadingCert /\ ~isLoadingDependencies
  /\ Truthy(accessToken)
  /\ accessToken' = ""
  /\ errorCert' = "User not authenticated."
  /\ errorDependencies' = "User not authenticated for dependencies."
  /\ UNCHANGED << certificateDetails, allCAs, isLoadingCert,
                  isLoadingDependencies, pc, pemLocals, vizLocals, memos >>
  /\ UNCHANGED << certificateId, canDelete, isCheckingUsage, deviceLookups,
                  deletionDeps, enabledBy >>
  /\ UNCHANGED outsideDelete

\* a session begins
SignIn ==
  /\ EffectSettled
  /\ ~Truthy(accessToken)
  /\ accessToken' = "token"
  /\ StartLoading
  /\ UNCHANGED << certificateId, canDelete, isCheckingUsage, deviceLookups,
                  deletionDeps, enabledBy >>
  /\ UNCHANGED outsideDelete

\* handleConfirmRevocation / handleReactivate, the update succeeded:
\* setCertificateDetails(prev => ({...prev, apiStatus}))
StatusChanged(status) ==
  /\ EffectSettled
  /\ PageShown
  /\ Truthy(accessToken)
  /\ status # certificateDetails.apiStatus
  /\ certificateDetails' = [certificateDetails EXCEPT !.apiStatus = status]
  /\ pc' = "pemMemo"
  /\ UNCHANGED << allCAs, isLoadingCert, isLoadingDependencies, errorCert,
                  errorDependencies, pemLocals, vizLocals, memos >>
  /\ UNCHANGED deleteVars
  /\ UNCHANGED outsideDelete

DeleteNext ==
  \/ EffectSettled /\ Truthy(accessToken)
       /\ LoadCertificateFound(ApiCertificate(certificateId))
  \/ EffectSettled /\ Truthy(accessToken) /\ LoadCertificateFailed
  \/ \E cas \in DeleteCaLists :
       EffectSettled /\ Truthy(accessToken) /\ LoadDependenciesDone(cas)
  \/ EffectSettled /\ Truthy(accessToken) /\ LoadDependenciesFailed
  \/ PemMemoBegin
  \/ PemStep
  \/ VizMemoBegin
  \/ VizStep
  \/ RunDeletionEffect
  \/ \E k \in 1..MaxLookups, outcome \in DeviceOutcomes :
       DeviceLookupSettles(k, outcome)
  \/ \E sn \in SerialNumbers : Navigate(sn)
  \/ SignOut
  \/ SignIn
  \/ \E status \in { "ACTIVE", "REVOKED" } : StatusChanged(status)

(***************************************************************************)
(* ConfigProvider: the effect that polls window.lamassuConfig. Each run of  *)
(* the effect has its own pollInterval and attemptCount; they are kept by   *)
(* the number of the run, which is also the handle of its interval.         *)
(***************************************************************************)
\* const maxAttempts = 30
maxAttempts == 30

\* window.lamassuConfig: not set, the configuration object, or a value that
\* is not an object
WindowValues == { "undefined", "object", "string" }

\* lamassuConfig && typeof lamassuConfig === 'object'
IsConfigObject(v) == v = "object"

\* the test of the attempts with >, one attempt late
MaxAttemptsReachedLate(count) == count > maxAttempts

\* attemptCount >= maxAttempts
MaxAttemptsReached(count) == count >= maxAttempts

\* if (pollInterval) clearInterval(pollInterval); 0 is the null handle
clearInterval(timersSet, handle) ==
  IF handle # 0 THEN timersSet \ { handle } ELSE timersSet

\* isConfigLoaded as a dependency of the effect
DepOf(loaded) == IF loaded THEN "true" ELSE "false"

\* checkConfig() in a run of the effect whose attemptCount is count and
\* whose pollInterval is handle: the state it leaves
checkConfig(count, handle, timersSet) ==
  IF IsConfigObject(lamassuConfig)
  THEN [attemptCount |-> count + 1, config |-> "object",
        isConfigLoaded |-> TRUE, isLoading |-> FALSE, pollInterval |-> 0,
        timers |-> clearInterval(timersSet, handle)]
  ELSE IF MaxAttemptsReached(count + 1)
  THEN [attemptCount |-> count + 1, config |-> "null",
        isConfigLoaded |-> FALSE, isLoading |-> FALSE, pollInterval |-> 0,
        timers |-> clearInterval(timersSet, handle)]
  ELSE [attemptCount |-> count + 1, config |-> config,
        isConfigLoaded |-> isConfigLoaded, isLoading |-> configIsLoading,
        pollInterval |-> handle, timers |-> timersSet]

\* the provider as constructed, the effect not yet run
ConfigStart(v) ==
  /\ lamassuConfig = v
  /\ config = "null"
  /\ isConfigLoaded = FALSE
  /\ configIsLoading = TRUE
  /\ pollInterval = << >>
  /\ attemptCount = << >>
  /\ activeTimers = { }
  /\ effectLoaded = "none"

ConfigInit == \E v \in WindowValues : ConfigStart(v)

\* the provider is not under observation
ConfigIdle == ConfigStart("undefined")

\* the state a call of checkConfig leaves, r its record
SetConfigState(r) ==
  /\ config' = r.config
  /\ isConfigLoaded' = r.isConfigLoaded
  /\ configIsLoading' = r.isLoading

\* the effect: at the mount and after a render that changed isConfigLoaded,
\* then after the cleanup of the run before. The initial check, then
\* setInterval if isConfigLoaded was false in the render of the effect.
RunConfigEffect ==
  /\ effectLoaded # DepOf(isConfigLoaded)
  /\ LET run == Len(attemptCount) + 1
         cleaned == IF run > 1
                    THEN clearInterval(activeTimers, pollInterval[run - 1])
                    ELSE activeTimers
         r == checkConfig(0, 0, cleaned)
     IN  /\ SetConfigState(r)
         /\ attemptCount' = Append(attemptCount, r.attemptCount)
         /\ IF ~isConfigLoaded
            THEN /\ pollInterval' = Append(pollInterval, run)
                 /\ activeTimers' = r.timers \cup { run }
            ELSE /\ pollInterval' = Append(pollInterval, r.pollInterval)
                 /\ activeTimers' = r.timers
  /\ effectLoaded' = DepOf(isConfigLoaded)
  /\ UNCHANGED lamassuConfig
  /\ UNCHANGED outsideConfig

\* the interval of a run of the effect fires: checkConfig()
PollTick(handle) ==
  /\ handle \in activeTimers
  /\ LET r == checkConfig(attemptCount[handle], pollInterval[handle],
                          activeTimers)
     IN  /\ SetConfigState(r)
         /\ attemptCount' = [attemptCount EXCEPT ![handle] = r.attemptCount]
         /\ pollInterval' = [pollInterval EXCEPT ![handle] = r.pollInterval]
         /\ activeTimers' = r.timers
  /\ UNCHANGED << lamassuConfig, effectLoaded >>
  /\ UNCHANGED outsideConfig

\* the script that defines window.lamassuConfig runs
ConfigScriptLoads(v) ==
  /\ lamassuConfig = "undefined"
  /\ v # "undefined"
  /\ lamassuConfig' = v
  /\ UNCHANGED << config, isConfigLoaded, configIsLoading, pollInterval,
                  attemptCount, activeTimers, effectLoaded >>
  /\ UNCHANGED outsideConfig

ConfigNext ==
  \/ RunConfigEffect
  \/ \E handle \in activeTimers : PollTick(handle)
  \/ \E v \in WindowValues : ConfigScriptLoads(v)

\* nothing is under the other parts of the pages
RestIdle ==
  ViewIdle /\ TagIdle /\ OutlineIdle /\ DeleteIdle /\ ConfigIdle

InitView ==
  ViewInit /\ ChainInit /\ TextIdle /\ HexIdle /\ TreeIdle /\ TagIdle
    /\ OutlineIdle /\ DeleteIdle /\ ConfigIdle

SpecView == InitView /\ [][ViewNext]_vars

InitTag ==
  TagInit /\ ChainInit /\ DecodeInit /\ TextIdle /\ HexIdle /\ TreeIdle
    /\ ViewIdle /\ OutlineIdle /\ DeleteIdle /\ ConfigIdle

SpecTag == InitTag /\ [][TagNext]_vars

InitOutline ==
  OutlineInit /\ ChainInit /\ DecodeInit /\ TextIdle /\ HexIdle /\ TreeIdle
    /\ ViewIdle /\ TagIdle /\ DeleteIdle /\ ConfigIdle

SpecOutline == InitOutline /\ [][OutlineNext]_vars

\* the certificate details page with its deletion check
InitDelete ==
  ChainInit /\ DeleteInit /\ DecodeInit /\ TextIdle /\ HexIdle /\ TreeIdle
    /\ ViewIdle /\ TagIdle /\ OutlineIdle /\ ConfigIdle

SpecDelete == InitDelete /\ [][DeleteNext]_vars

InitConfig ==
  ConfigInit /\ ChainInit /\ DecodeInit /\ TextIdle /\ HexIdle /\ TreeIdle
    /\ ViewIdle /\ TagIdle /\ OutlineIdle /\ DeleteIdle

\* the timers of the page fire and React runs the effects of a render
SpecConfig ==
  /\ InitConfig
  /\ [][ConfigNext]_vars
  /\ WF_configVars(RunConfigEffect)
  /\ WF_configVars(\E handle \in activeTimers : PollTick(handle))

\* nothing is under the functions of the decoder
PureIdle == TextIdle /\ HexIdle /\ TreeIdle /\ RestIdle

\* the functions of decode applied to a text, nothing else going on
InitTexts ==
  TextInit /\ ChainInit /\ DecodeInit /\ HexIdle /\ TreeIdle /\ RestIdle

InitHex ==
  HexInit /\ ChainInit /\ DecodeInit /\ TextIdle /\ TreeIdle /\ RestIdle

SpecHex == InitHex /\ [][HexNext]_vars

InitTree ==
  TreeInit /\ ChainInit /\ DecodeInit /\ TextIdle /\ HexIdle /\ RestIdle

SpecTree == InitTree /\ [][TreeNext]_vars

SpecTexts == InitTexts /\ [][TextNext]_vars

\* the decoder page: the certificate page stays as constructed
InitDecode == DecodeInit /\ ChainInit /\ PureIdle

SpecDecode == InitDecode /\ [][DecodeNext]_vars

\* the step that takes the timer at the head off the queue: DecodeFinish is
\* the one action that does
TimerFires == Len(timers) > 0 /\ timers' = Tail(timers)

\* every timer fires and every read of a file ends: the event loop of the
\* browser runs the callbacks of setTimeout and settles file.text()
SpecDecodeFair ==
  /\ InitDecode
  /\ [][OutcomeNext]_vars
  /\ WF_timers(TimerFires)
  /\ \A i \in 1..MaxCalls :
       WF_vars(Len(calls) >= i /\ (FileRead(i) \/ FileReadFailed(i)))

ChainNext ==
  \/ \E c \in Certificates : LoadCertificateFound(c)
  \/ LoadCertificateFailed
  \/ \E cas \in CaLists : LoadDependenciesDone(cas)
  \/ LoadDependenciesFailed
  \/ PemMemoBegin
  \/ PemStep
  \/ VizMemoBegin
  \/ VizStep

\* the certificate details page: the decoder stays as constructed
InitChain == ChainInit /\ DecodeInit /\ PureIdle

SpecChain == InitChain /\ [][ChainNext]_vars

\* the render runs to completion: React does not abandon a synchronous render
SpecChainFair ==
  /\ SpecChain
  /\ WF_vars(PemMemoBegin) /\ WF_vars(PemStep)
  /\ WF_vars(VizMemoBegin) /\ WF_vars(VizStep)

(***************************************************************************)
(* Vocabulary of the properties.                                           *)
(***************************************************************************)
Min(a, b) == IF a < b THEN a ELSE b

Range(q) == { q[i] : i \in 1..Len(q) }

RECURSIVE Reverse(_)
Reverse(q) == IF Len(q) = 0 THEN << >> ELSE Append(Reverse(Tail(q)), q[1])

\* the render that followed the last change of the inputs is complete
Rendered == pc = "idle"

\* both inputs of the walk are there
HasInput == certificateDetails # NULL /\ Len(allCAs) > 0

\* a self-signed CA record, as the specification defines it
SelfSigned(ca) ==
  ca.issuer = ca.id \/ ca.issuer = "" \/ ca.issuer = "Self-signed"

RECURSIVE IssuerChain(_, _, _)
\* The CA records the issuer references lead through, starting at issuer id
\* `id`, direct issuer first: it ends after a self-signed CA, before an id that
\* is empty or not in the list, and after `fuel` records.
IssuerChain(id, cas, fuel) ==
  IF fuel = 0 \/ id = "" \/ findCaById(id, cas) = NULL THEN << >>
  ELSE LET ca == findCaById(id, cas) IN
       IF SelfSigned(ca) THEN << ca >>
       ELSE << ca >> \o IssuerChain(ca.issuer, cas, fuel - 1)

\* The references from `id` run into a cycle: they lead through more records
\* than the list has, so never to a self-signed CA or to an unknown id.
Cyclic(id, cas) == Len(IssuerChain(id, cas, Len(cas) + 1)) = Len(cas) + 1

\* no issuer cycle anywhere in the list (a root naming itself is no cycle)
Acyclic(cas) == \A i \in 1..Len(cas) : ~Cyclic(cas[i].id, cas)

\* The length of the real chain above issuer id `id` in an acyclic list: the
\* CAs the references name, the named but unlisted issuer of the last record
\* included (that CA exists, only its record is missing).
RealChainLength(id, cas) ==
  LET known == IssuerChain(id, cas, Len(cas) + 1)
      next == IF Len(known) = 0 THEN id ELSE known[Len(known)].issuer
      last == IF Len(known) = 0 THEN NULL ELSE known[Len(known)]
  IN  IF Len(known) = 0
      THEN (IF id = "" THEN 0 ELSE 1)
      ELSE IF SelfSigned(last) THEN Len(known) ELSE Len(known) + 1

NoDuplicateIds(q) ==
  \A i, j \in 1..Len(q) : q[i].id = q[j].id => i = j

\* the PEM blocks among the pieces of a text, in order
IsPemBlock(t) == t = LeafPem \/ \E i \in 1..Len(CaPems) : t = CaPems[i]

PemBlocks(text) == SelectSeq(text, IsPemBlock)

\* the page shows its tabs, the PEM tab among them
TabsShown ==
  /\ Rendered
  /\ ~isLoadingCert /\ ~isLoadingDependencies
  /\ errorCert = "" /\ errorDependencies = ""
  /\ certificateDetails # NULL

(***************************************************************************)
(* C1: for a cyclic CA list (an issuer cycle with no self-signed member,   *)
(* entered from the leaf's issuer id) the walks terminate: the render that *)
(* started them completes, and the chain returned has at most maxDepth     *)
(* (10) entries.                                                           *)
(***************************************************************************)
C1_CyclicWalkTerminates ==
  [](((pc = "pemLoop" \/ pc = "vizLoop")
       /\ Cyclic(certificateDetails.issuerCaId, allCAs))
     => <>(Rendered /\ Len(certificateChainForVisualizer) <= 10))

\* a walk round a cycle has returned, stopped by the depth bound
C1_Witness ==
  /\ Rendered
  /\ HasInput
  /\ Cyclic(certificateDetails.issuerCaId, allCAs)
  /\ vizStop = "depth"
  /\ Len(certificateChainForVisualizer) = 10

(***************************************************************************)
(* C2: for every leaf certificate and every CA list, the chain the walk    *)
(* builds and returns never has more than maxDepth (10) entries.           *)
(***************************************************************************)
C2_ChainLengthAtMostMaxDepth ==
  /\ Len(path) <= 10
  /\ Len(certificateChainForVisualizer) <= 10

\* a walk has returned a chain of exactly 10 entries
C2_Witness == Rendered /\ Len(certificateChainForVisualizer) = 10

(***************************************************************************)
(* C3: the walk stops at the first self-signed CA it reaches and at the    *)
(* first issuer id that is not in the CA list. No CA is looked up or added *)
(* after either event: a self-signed CA is only ever the first (root-most) *)
(* entry, no lookup follows it, and an id that was not found is the last   *)
(* one looked up.                                                          *)
(***************************************************************************)
C3_StopsAtSelfSignedOrMissing ==
  /\ \A i \in 1..Len(path) : ~SelfSigned(path[i])
  /\ pc = "vizLoop" => lookups = Len(path)
  /\ (Rendered /\ HasInput) =>
       LET p == certificateChainForVisualizer
           pending == IF Len(p) = 0 THEN certificateDetails.issuerCaId
                      ELSE p[1].issuer
       IN  /\ \A i \in 2..Len(p) : ~SelfSigned(p[i])
           /\ (Len(p) > 0 /\ SelfSigned(p[1])) =>
                (vizStop = "selfSigned" /\ lookups = Len(p))
           /\ (Len(p) = 0 \/ ~SelfSigned(p[1])) =>
                \/ vizStop = "noIssuer" /\ pending = "" /\ lookups = Len(p)
                \/ vizStop = "depth" /\ lookups = Len(p)
                \/ /\ vizStop = "notFound"
                   /\ findCaById(pending, allCAs) = NULL
                   /\ lookups = Len(p) + 1

\* a walk has stopped at a CA carrying the 'Self-signed' marker, two levels up
C3_Witness ==
  /\ Rendered
  /\ vizStop = "selfSigned"
  /\ Len(certificateChainForVisualizer) = 2
  /\ certificateChainForVisualizer[1].issuer = "Self-signed"

(***************************************************************************)
(* C4: the chain returned is ordered root-first. Its entries are records   *)
(* of the CA list, its last entry is the CA whose id is the leaf's issuer  *)
(* id, every earlier entry is the issuer of the entry that follows it, and *)
(* the leaf is not an entry. For Root (self-signed), Intermediate (issued  *)
(* by Root) and a leaf issued by Intermediate it is [Root, Intermediate].  *)
(***************************************************************************)
C4_RootFirstOrder ==
  (Rendered /\ HasInput) =>
    LET p == certificateChainForVisualizer IN
    /\ \A i \in 1..Len(p) : p[i] \in Range(allCAs) /\ p[i] # certificateDetails
    /\ Len(p) > 0 => p[Len(p)].id = certificateDetails.issuerCaId
    /\ \A i \in 1..(Len(p) - 1) : p[i].id = p[i + 1].issuer
    /\ ( /\ Len(allCAs) = 2
         /\ SelfSigned(allCAs[1])
         /\ allCAs[2].issuer = allCAs[1].id
         /\ certificateDetails.issuerCaId = allCAs[2].id )
       => p = allCAs

\* the scenario: the chain [Root, Intermediate] has been returned
C4_Witness ==
  /\ Rendered
  /\ HasInput
  /\ Len(allCAs) = 2
  /\ allCAs[1].issuer = allCAs[1].id
  /\ allCAs[2].issuer = allCAs[1].id
  /\ certificateDetails.issuerCaId = allCAs[2].id
  /\ certificateChainForVisualizer = allCAs

(***************************************************************************)
(* C5. The scenario of a certificate issued by a self-signed root thisCa   *)
(* (its issuer id is its own id), with [thisCa] as the CA list.            *)
(***************************************************************************)
SelfSignedRootScenario ==
  /\ Rendered
  /\ HasInput
  /\ Len(allCAs) = 1
  /\ allCAs[1].issuer = allCAs[1].id
  /\ certificateDetails.issuerCaId = allCAs[1].id

\* C5 as claimed: in the scenario the walk returns an empty sequence.
C5_Original_EmptyForSelfSignedRoot ==
  SelfSignedRootScenario => certificateChainForVisualizer = << >>

\* C5 as amended: in the scenario the walk returns the one-entry sequence
\* [thisCa]: it looks up the issuer id, finds thisCa, adds it, and stops
\* there because thisCa is self-signed.
C5_SelfSignedRootIsReturned ==
  SelfSignedRootScenario =>
    /\ certificateChainForVisualizer = << allCAs[1] >>
    /\ vizStop = "selfSigned"
    /\ lookups = 1

\* the scenario has been rendered
C5_Witness == SelfSignedRootScenario /\ ~isLoadingCert /\ ~isLoadingDependencies

(***************************************************************************)
(* C6: for every CA list without an issuer cycle (a root naming itself     *)
(* aside) the walk makes at most min(realChainLength, maxDepth) lookups    *)
(* and the chain it builds and returns contains no CA id twice.            *)
(***************************************************************************)
C6_AcyclicBoundedNoDuplicates ==
  (HasInput /\ Acyclic(allCAs) /\ (pc = "vizLoop" \/ Rendered)) =>
    /\ lookups <=
         Min(RealChainLength(certificateDetails.issuerCaId, allCAs), 10)
    /\ NoDuplicateIds(path)
    /\ NoDuplicateIds(certificateChainForVisualizer)

\* a walk up the long acyclic list has returned after maxDepth lookups
C6_Witness ==
  /\ Rendered
  /\ HasInput
  /\ Acyclic(allCAs)
  /\ RealChainLength(certificateDetails.issuerCaId, allCAs) > 10
  /\ lookups = 10
  /\ Len(certificateChainForVisualizer) = 10

(***************************************************************************)
(* C7 as claimed: the full-chain PEM text consists of the leaf's PEM       *)
(* followed by the PEM of exactly the CAs of the chain the visualizer walk *)
(* returned, direct issuer first and root last, so that it has chain       *)
(* length plus one PEM blocks, the itemPathToRootCount shown with it.      *)
(* Stated for the pages that have a full-chain text to show: the           *)
(* certificate has PEM data and the CA list is not empty.                  *)
(***************************************************************************)
itemPathToRootCount == Len(certificateChainForVisualizer) + 1

RECURSIVE PemsOf(_)
PemsOf(q) == IF Len(q) = 0 THEN << >> ELSE << q[1].pemData >> \o PemsOf(Tail(q))

C7_Original_SameWalk ==
  (TabsShown /\ Len(allCAs) > 0 /\ Truthy(certificateDetails.pemData)) =>
    /\ PemBlocks(fullChainPemString) =
         << certificateDetails.pemData >>
           \o PemsOf(Reverse(certificateChainForVisualizer))
    /\ Len(PemBlocks(fullChainPemString)) = itemPathToRootCount

(***************************************************************************)
(* C8 as claimed: in the full-chain PEM text consecutive PEM blocks are    *)
(* separated by two newline characters and by nothing else.                *)
(***************************************************************************)
C8_Original_BlankLineSeparator ==
  fullChainPemString = Join(PemBlocks(fullChainPemString), << "\n", "\n" >>)

(***************************************************************************)
(* C9: chain resolution never ends in an error. For every leaf and every   *)
(* CA list the walk returns the chain resolved so far: the records the     *)
(* issuer references lead through, cut at the unresolved issuer or after   *)
(* maxDepth (10) records, root first; with no certificate or an empty CA   *)
(* list it returns the empty chain.                                        *)
(***************************************************************************)
C9_NoErrorTruncatedChain ==
  /\ pc # "error"
  /\ vizStop # "error"
  /\ Rendered =>
       certificateChainForVisualizer =
         IF HasInput
         THEN Reverse(IssuerChain(certificateDetails.issuerCaId, allCAs, 10))
         ELSE << >>

\* a walk has returned a chain cut at an issuer id that is not in the list
C9_Witness ==
  /\ Rendered
  /\ vizStop = "notFound"
  /\ Len(certificateChainForVisualizer) >= 1
  /\ ~SelfSigned(certificateChainForVisualizer[1])

(***************************************************************************)
(* C10. The calls whose input normalizes to bytes that fail TLV parsing.   *)
(***************************************************************************)
TlvParsingFails(text) ==
  LET bytes == getBytesFromData(text) IN
  bytes.ok /\ Asn1End(bytes.value, 0) = -1

\* the call that settled last
LastSettled == CHOOSE i \in Settled : \A j \in Settled : calls[j].order <= calls[i].order

AllFinished ==
  /\ Len(calls) > 0
  /\ \A i \in 1..Len(calls) : calls[i].stage \in { "resolved", "rejected" }

\* C11 as claimed: once all overlapping decode calls have finished, the
\* decoded data rendered is the result of the most recently issued call; the
\* result of an earlier, stale call never replaces it.
C11_Original_LatestCallWins ==
  (AllFinished /\ calls[Len(calls)].stage = "resolved") =>
    decodedData = calls[Len(calls)].result

(***************************************************************************)
(* Normalization of the input text.                                        *)
(***************************************************************************)
\* getBytesFromData has been applied to the text
Normalized == textPc \in { "normalized", "encoded", "renormalized" }

\* C12: normalization tries PEM armor, hex, Base64, raw bytes in this order.
\* An armored text is decoded as the Base64 of its body; a text without
\* armor made of hex digits and blanks is decoded as hex, also when it is
\* valid Base64; any other text that is valid Base64 is decoded as Base64;
\* and the character codes are the bytes only when none of the three matched.
C12_EncodingsTriedInOrder ==
  Normalized =>
    LET t == trim(inputText) IN
    /\ IsPemText(t) =>
         \A label \in ArmorLabels, body \in ArmorBodies :
           inputText = Armored(label, body) => normalized = Base64Decode(body)
    /\ IsPemText(t) => EncodingOf(inputText) = "pem"
    /\ (~IsPemText(t) /\ IsHexText(t)) => normalized = HexDecode(t)
    /\ (~IsPemText(t) /\ ~IsHexText(t) /\ Base64Decode(t).ok) =>
         normalized = Base64Decode(t)
    /\ (~IsPemText(t) /\ ~IsHexText(t) /\ ~Base64Decode(t).ok) =>
         normalized = Returned(RawBytes(t))
    /\ (t # << >> /\ normalized = Returned(RawBytes(t))) =>
         (~IsPemText(t) /\ ~IsHexText(t) /\ ~Base64Decode(t).ok)

\* the text 30, which is hex and valid Base64, has been decoded as hex
C12_Witness ==
  /\ Normalized
  /\ inputText = << "3", "0" >>
  /\ Base64Decode(inputText) = Returned(<< 223 >>)
  /\ normalized = Returned(<< 48 >>)

\* C13 as claimed: normalizing a text never fails; some path yields bytes for
\* every text, the character codes being taken whenever the PEM, hex and
\* Base64 paths produce none.
C13_Original_NormalizationNeverFails ==
  Normalized =>
    /\ normalized.ok
    /\ LET t == trim(inputText) IN
       (\/ IsPemText(t) /\ ~Base64Decode(StripWhite(StripArmor(
                              StripArmor(t, BeginMark), EndMark))).ok
        \/ ~IsPemText(t) /\ IsHexText(t) /\ ~HexDecode(t).ok
        \/ ~IsPemText(t) /\ ~IsHexText(t) /\ ~Base64Decode(t).ok)
         => normalized = Returned(RawBytes(t))

\* generateBase64 has been applied to the text
Encoded == textPc \in { "encoded", "renormalized" }

\* C18 as claimed: for every input, feeding the Base64 output back into the
\* decoder normalizes to the same byte sequence as the original input.
C18_Original_Base64RoundTrip ==
  textPc = "renormalized" => reNormalized = normalized

\* C18 as amended: when the input normalizes to fewer than maxLength bytes,
\* the Base64 output is an encoding of them (Base64-decoding it gives the
\* bytes back), and fed back into the decoder it normalizes to the same bytes
\* unless it consists of hex digits only, in which case the decoder reads it
\* as hex; when the input does not normalize, the Base64 output is empty.
C18_Base64EncodesNormalizedBytes ==
  Encoded =>
    LET encodable == normalized.ok /\ Len(normalized.value) < maxLength IN
    /\ encodable => Base64Decode(base64Text) = normalized
    /\ ~normalized.ok => base64Text = << >>
    /\ (textPc = "renormalized" /\ encodable) =>
         reNormalized = IF IsHexText(base64Text) THEN HexDecode(base64Text)
                        ELSE normalized

\* an armored AAAA gave the bytes 00 00 00, whose Base64 AAAA was read back
\* as the hex bytes AA AA
C18_Witness ==
  /\ textPc = "renormalized"
  /\ normalized = Returned(<< 0, 0, 0 >>)
  /\ base64Text = << "A", "A", "A", "A" >>
  /\ reNormalized = Returned(<< 170, 170 >>)

\* the body of decode has run on the text with guessing on and with it off
DecodedBothWays == parsedAsn1[TRUE] # NULL /\ parsedAsn1[FALSE] # NULL

\* C19: content-type guessing never gates decoding. For every input, whether
\* the decode succeeds, and the structure, hex dump and Base64 it produces,
\* are the same with guessing enabled (wantDef) and disabled, whatever list
\* the guesser returns; the list only fills the definitions of the result.
C19_GuessNeverGatesDecode ==
  /\ \A def \in BOOLEAN :
       parsedAsn1[def] # NULL =>
         /\ parsedAsn1[def].ok
         /\ parsedAsn1[def].value.structure = generateASN1Structure(inputText).value
         /\ parsedAsn1[def].value.base64 = base64Text
         /\ parsedAsn1[def].value.definitions = IF def THEN mockTypes ELSE << >>
  /\ DecodedBothWays =>
       /\ parsedAsn1[TRUE].ok = parsedAsn1[FALSE].ok
       /\ parsedAsn1[TRUE].value.structure = parsedAsn1[FALSE].value.structure
       /\ parsedAsn1[TRUE].value.hexDump = parsedAsn1[FALSE].value.hexDump
       /\ parsedAsn1[TRUE].value.base64 = parsedAsn1[FALSE].value.base64

\* an armored certificate text has been decoded both ways: the guesser put
\* 'X.509 Certificate' first, and both results hold the same structure
C19_Witness ==
  /\ DecodedBothWays
  /\ inputText = Armored(KwCertificate, << "M", "A", "A", "A" >>)
  /\ mockTypes[1].description = "X.509 Certificate"
  /\ parsedAsn1[TRUE].value.definitions = mockTypes
  /\ parsedAsn1[FALSE].value.definitions = << >>
  /\ parsedAsn1[TRUE].value.structure.kind = "structure"
  /\ parsedAsn1[FALSE].value.structure = parsedAsn1[TRUE].value.structure

\* the line '-----BEGIN CERTIFICATE-----'
CertificateArmorLine == BeginMark \o << " " >> \o KwCertificate \o FiveDashes

\* C20: for every input text the content-type guesser returns a list sorted
\* by non-increasing confidence, every confidence lies in [0,1] (0..100
\* hundredths), and for input armored with '-----BEGIN CERTIFICATE-----' the
\* first entry is 'X.509 Certificate'.
C20_GuessesRankedAndBounded ==
  mockTypes # NULL =>
    /\ \A i \in 1..(Len(mockTypes) - 1) :
         mockTypes[i].match >= mockTypes[i + 1].match
    /\ \A i \in 1..Len(mockTypes) :
         mockTypes[i].match >= 0 /\ mockTypes[i].match <= 100
    /\ includes(inputText, CertificateArmorLine) =>
         (Len(mockTypes) > 0 /\ mockTypes[1].description = "X.509 Certificate")

\* the guesser has ranked a text armored with -----BEGIN CERTIFICATE-----
C20_Witness ==
  /\ mockTypes # NULL
  /\ includes(inputText, CertificateArmorLine)
  /\ mockTypes[1] = TypeDefinition("X.509 Certificate", 95)
  /\ Len(mockTypes) = 3

(***************************************************************************)
(* Positions in the rendered hex dump.                                     *)
(***************************************************************************)
RECURSIVE TokensBefore(_)
\* the number of byte tokens in the lines of the dump before line l
TokensBefore(l) ==
  IF l <= 1 THEN 0 ELSE TokensBefore(l - 1) + hexLines[l - 1].hexBytes

\* the index of a rendered byte in the dump, counted across all the rows
\* before its own
AbsoluteIndex(span) == TokensBefore(span.line) + span.byteIndex

\* C14 as claimed: the position of each hex token rendered is its absolute
\* index in the dump, counted across all preceding rows, for rows with an
\* offset prefix and for plain rows alike, and the token is highlighted
\* exactly when hoveredByteRange.start <= position < hoveredByteRange.end.
C14_Original_PositionIsAbsoluteIndex ==
  \A k \in 1..Len(renderedBytes) :
    LET span == renderedBytes[k] IN
    /\ span.currentBytePosition = AbsoluteIndex(span)
    /\ span.isHovered <=>
         /\ hoveredByteRange # NULL
         /\ hoveredByteRange.start <= AbsoluteIndex(span)
         /\ AbsoluteIndex(span) < hoveredByteRange.end

(***************************************************************************)
(* Byte ranges of tree nodes and the header bytes shown for a node.        *)
(***************************************************************************)
\* the number of bytes of L in base 256, L > 0
BytesOf(L) ==
  CHOOSE k \in 1..4 : Pow256(k) > L /\ \A j \in 1..(k - 1) : Pow256(j) <= L

\* the length octets of the DER encoding of a content length L
DerLengthOctets(L) ==
  IF L <= 127 THEN << L >>
  ELSE LET k == BytesOf(L) IN
       << 128 + k >> \o [i \in 1..k |-> (L \div Pow256(k - i)) % 256]

\* the bytes of the buffer the element was decoded from, the element being
\* the last one in it
DecodedLength == element.pos + 1 + Len(DerLengthOctets(element.length))
                   + element.length

\* parseASN1Tree gave the node of the line a byte range
HasRange == treeNode # NULL /\ treeNode.range # NULL

\* C15 as claimed: every tree node that carries a byte range satisfies
\* byteEnd - byteStart >= 1, 0 <= byteStart, and byteEnd <= the number of
\* decoded bytes.
C15_Original_RangeWithinDecodedBytes ==
  HasRange =>
    /\ treeNode.range.byteEnd - treeNode.range.byteStart >= 1
    /\ 0 <= treeNode.range.byteStart
    /\ treeNode.range.byteEnd <= DecodedLength

\* C16 as claimed: for a node that starts at offset o and has content length
\* L, the end of its byte range is exactly o + headerBytes + L, headerBytes
\* being the tag byte plus the length octets of L (one for L <= 127, 1 + k in
\* long form), for every L.
C16_Original_RangeEndIsExact ==
  (HasRange /\ treeNode.line.content.length # -1) =>
    LET o == treeNode.range.byteStart
        L == treeNode.line.content.length
    IN  treeNode.range.byteEnd = o + 1 + Len(DerLengthOctets(L)) + L

\* C17 as claimed: the tag byte and length octets extractHexFromLine renders
\* for a node equal the tag byte of the original encoding, the constructed
\* bit of a context-specific tag [n] included, and the DER length octets of
\* its content length, for every L.
C17_Original_HeaderRoundTrip ==
  (headerHex # NULL /\ headerHex.kind = "header") =>
    headerHex.bytes = << element.tag >> \o DerLengthOctets(element.length)

\* what a hover must leave alone: the decoded data with its definitions, the
\* expansion set and the options of the decoder
HoverFrame ==
  UNCHANGED << decodedData, definitions, selectedDefinition, expandedNodes,
               wantHex, trimHex, wantDef, isLoading, error >>

\* C21: a hover and an un-hover of a row of the tree change the active
\* highlight range and nothing else: entering a row with a byte range makes
\* that range the one highlight (whatever was highlighted before), entering
\* a row without one changes nothing, leaving a row clears the highlight;
\* the decoded data, the expansion set and the options stay as they were.
C21_HoverOnlySetsHighlight ==
  [][/\ \A node \in ViewNodes :
          HandleMouseEnter(node) =>
            /\ HoverFrame
            /\ hoveredByteRange' =
                 IF node.range = NULL THEN hoveredByteRange
                 ELSE [start |-> node.range.byteStart,
                       end |-> node.range.byteEnd]
     /\ HandleMouseLeave => HoverFrame /\ hoveredByteRange' = NULL]_vars

\* a row is highlighted while a decoded structure is shown with a node
\* expanded and an option changed
C21_Witness ==
  /\ hoveredByteRange # NULL
  /\ decodedData # NULL
  /\ expandedNodes # { }
  /\ ~wantHex

\* the number a text of two upper-case hex digits stands for
ByteOf(t) ==
  CHOOSE b \in 0..255 :
    /\ HexDigitChars[(b \div 16) + 1] = t[1]
    /\ HexDigitChars[(b % 16) + 1] = t[2]

ClassIndex(name) == (CHOOSE i \in 1..4 : classNames[i] = name) - 1

\* C22: for every tag byte b in 0..255 the decomposition names the class of
\* bits 7-6 (Universal, Application, Context, Private for 0..3), says
\* constructed exactly when bit 5 is set and gives bits 4-0 as the tag
\* number, so that 64 * class + 32 * constructed + tagNumber = b.
C22_TagByteDecomposition ==
  decomposed # NULL =>
    LET b == ByteOf(hexValue) IN
    /\ decomposed.class = classNames[(b \div 64) + 1]
    /\ decomposed.constructed = ((b \div 32) % 2 = 1)
    /\ decomposed.tagNumber = b % 32
    /\ 64 * ClassIndex(decomposed.class)
         + 32 * (IF decomposed.constructed THEN 1 ELSE 0)
         + decomposed.tagNumber = b

\* the byte A3 has been decomposed: Context, constructed, tag number 3
C22_Witness ==
  /\ hexValue = << "A", "3" >>
  /\ decomposed # NULL
  /\ decomposed.class = "Context"
  /\ decomposed.constructed
  /\ decomposed.tagNumber = 3

(***************************************************************************)
(* The outcome of a decode call.                                           *)
(***************************************************************************)
\* the call at index i has been issued, and it has settled
Issued(i) == Len(calls) >= i

HasSettled(i) == Issued(i) /\ calls[i].stage \in { "resolved", "rejected" }

\* C23: every decode call reaches exactly one terminal outcome. A call that
\* has been issued eventually settles; it settles either resolved with a
\* decoded result or rejected without one, the rejection recording its
\* message in the error state at that step; and a settled call never changes
\* again.
C23_OneTerminalOutcome ==
  /\ \A i \in 1..MaxCalls : Issued(i) ~> HasSettled(i)
  /\ [](\A i \in 1..Len(calls) :
          /\ calls[i].stage = "resolved" => calls[i].result # NULL
          /\ calls[i].stage = "rejected" => calls[i].result = NULL)
  /\ [][\A i \in 1..Len(calls) :
          /\ (~HasSettled(i) /\ calls'[i].stage = "rejected") => error' # ""
          /\ (~HasSettled(i) /\ calls'[i].stage = "resolved") =>
               /\ decodedData' = calls'[i].result
               /\ error' = error
          /\ HasSettled(i) => calls'[i] = calls[i]]_vars

\* two overlapping calls have settled, one resolved and one rejected
C23_Witness ==
  /\ Len(calls) = 2
  /\ calls[1].stage = "resolved"
  /\ calls[1].order = 2
  /\ calls[2].stage = "rejected"
  /\ calls[2].order = 1

(***************************************************************************)
(* An element whose declared length overruns the input.                    *)
(***************************************************************************)
\* the bytes start with a one-byte tag and a short-form length that exceeds
\* the bytes that remain after the header
DeclaredLengthOverruns(text) ==
  LET bytes == getBytesFromData(text) IN
  /\ bytes.ok
  /\ Len(bytes.value) >= 2
  /\ bytes.value[1] % 32 # 31
  /\ bytes.value[2] < 128
  /\ 2 + bytes.value[2] > Len(bytes.value)

DecodeRunning(i) == calls[i].stage = "waiting"

\* C25 as claimed: isLoading is true in every state in which some decode
\* call has started and not yet finished, also when two calls overlap, and
\* false when no call is in flight.
C25_Original_LoadingWhileInFlight ==
  /\ (\E i \in 1..Len(calls) : DecodeRunning(i)) => isLoading
  /\ (\A i \in 1..Len(calls) : HasSettled(i)) => ~isLoading

(***************************************************************************)
(* The branches of the content type guesser.                               *)
(***************************************************************************)
\* C26 as claimed: each keyword branch of the guesser is selected by the
\* header its condition names: a text containing 'BEGIN RSA PRIVATE KEY' is
\* ranked with 'PKCS#1 RSA Private Key' first (0.98), and a text containing
\* 'BEGIN CERTIFICATE REQUEST' with 'PKCS#10 Certificate Request' first
\* (0.95).
C26_Original_BranchByNamedHeader ==
  mockTypes # NULL =>
    /\ includes(toUpperCase(inputText), KwBeginRsaPrivateKey) =>
         mockTypes[1] = TypeDefinition("PKCS#1 RSA Private Key", 98)
    /\ includes(toUpperCase(inputText), KwBeginCertificateRequest) =>
         mockTypes[1] = TypeDefinition("PKCS#10 Certificate Request", 95)

(***************************************************************************)
(* The tree and the braces of a structure text.                            *)
(***************************************************************************)
\* parseASN1Tree has returned
TreeBuilt == outlinePc \in { "braces", "closing", "done" }

\* C27: in the tree parseASN1Tree builds from any indented structure text,
\* the hasChildren flag of a node is true exactly when its children list is
\* not empty, and every child has a strictly greater indent level than its
\* parent.
C27_HasChildrenMatchesChildren ==
  TreeBuilt =>
    \A k \in 1..Len(nodeOf) :
      /\ nodeOf[k].hasChildren <=> nodeOf[k].children # << >>
      /\ \A c \in 1..Len(nodeOf[k].children) :
           nodeOf[nodeOf[k].children[c]].indentLevel > nodeOf[k].indentLevel

\* a tree of three lines is built: the first has the second as its child,
\* half a level deeper, and the third is a root again
C27_Witness ==
  /\ TreeBuilt
  /\ Len(nodeOf) = 3
  /\ nodeOf[1].children = << 2 >>
  /\ nodeOf[1].hasChildren
  /\ nodeOf[2].indentLevel = 1
  /\ ~nodeOf[2].hasChildren
  /\ rootNodes = << 1, 3 >>

\* the structure text is one toPrettyString prints: the first line starts
\* at the margin, a line is two blanks deeper than the line before it only
\* under a constructed type, and never deeper than that
PrettyPrinted ==
  /\ structureLines[1].indent = 0
  /\ \A k \in 1..Len(structureLines) : structureLines[k].indent % 2 = 0
  /\ \A k \in 1..(Len(structureLines) - 1) :
       /\ structureLines[k + 1].indent <= structureLines[k].indent + 2
       /\ structureLines[k + 1].indent > structureLines[k].indent =>
            structureLines[k].kind \in { "SEQUENCE", "[0]" }

\* the place in the brace view of the line k of the structure text
EntryOf(k) == CHOOSE p \in 1..Len(braceResult) : braceResult[p].line = k

RECURSIVE ClosingBraceFrom(_, _)
\* the place of the '}' that closes the brace open before place q, with
\* depth further braces open at q; 0 when there is none
ClosingBraceFrom(q, depth) ==
  IF q > Len(braceResult) THEN 0
  ELSE IF braceResult[q].entry = "{" THEN ClosingBraceFrom(q + 1, depth + 1)
  ELSE IF braceResult[q].entry = "line" THEN ClosingBraceFrom(q + 1, depth)
  ELSE IF depth = 0 THEN q
  ELSE ClosingBraceFrom(q + 1, depth - 1)

\* the place of the '}' that closes the '{' at place p
ClosingBraceOf(p) == ClosingBraceFrom(p + 1, 0)

RECURSIVE Descendants(_)
\* the lines of the descendants of the node of line k in the tree
Descendants(k) ==
  UNION { { nodeOf[k].children[c] } \cup Descendants(nodeOf[k].children[c]) :
            c \in 1..Len(nodeOf[k].children) }

\* the list of nodes that holds the node of line k: nodes, or the children
\* of its parent
SiblingsOf(k) ==
  IF \E r \in 1..Len(rootNodes) : rootNodes[r] = k THEN rootNodes
  ELSE nodeOf[CHOOSE j \in 1..Len(nodeOf) :
                \E c \in 1..Len(nodeOf[j].children) :
                  nodeOf[j].children[c] = k].children

\* the line of the next sibling of the node of line k, 0 for the last child
NextSibling(k) ==
  LET siblings == SiblingsOf(k)
      at == CHOOSE c \in 1..Len(siblings) : siblings[c] = k
  IN  IF at < Len(siblings) THEN siblings[at + 1] ELSE 0

\* the number of entries of the brace view of the given kind
CountOf(entry) ==
  Cardinality({ p \in 1..Len(braceResult) : braceResult[p].entry = entry })

\* C28 as claimed: the brace view agrees with the tree view of the same
\* structure text: every '{' opened for a SEQUENCE, SET or [n] line is
\* closed by exactly one '}', and that '}' comes after the lines of all the
\* descendants of the node (as nested by parseASN1Tree) and before the line
\* of its next sibling.
C28_Original_BracesAgreeWithTree ==
  (outlinePc = "done" /\ PrettyPrinted) =>
    /\ CountOf("{") = CountOf("}")
    /\ \A k \in 1..Len(structureLines) :
         structureLines[k].kind \in { "SEQUENCE", "[0]" } =>
           /\ ClosingBraceOf(EntryOf(k)) # 0
           /\ \A d \in Descendants(k) :
                /\ EntryOf(k) < EntryOf(d)
                /\ EntryOf(d) < ClosingBraceOf(EntryOf(k))
           /\ NextSibling(k) # 0 =>
                ClosingBraceOf(EntryOf(k)) < EntryOf(NextSibling(k))

\* C29 as claimed: once the deletion effect has run for the state that is
\* rendered, canDelete is true only if the certificate details, the access
\* token and the CA list are there, the issuer CA of the certificate shown is
\* absent from the loaded CA list, and the lookup that set canDelete was the
\* lookup of the common name of the certificate shown and reported not
\* found; this also when the details changed while a lookup was in flight.
C29_Original_DeleteOnlyWhenUnused ==
  (EffectSettled /\ canDelete) =>
    /\ certificateDetails # NULL
    /\ Truthy(accessToken)
    /\ Len(allCAs) > 0
    /\ ~IssuerCaExists(certificateDetails, allCAs)
    /\ enabledBy # NULL
    /\ enabledBy.commonName =
         getCertSubjectCommonName(certificateDetails.subject)

\* the configuration was found: config is set and isConfigLoaded is true
ConfigFound == config = "object" /\ isConfigLoaded

\* the polling gave up: config is null and isConfigLoaded is false
ConfigGivenUp == config = "null" /\ ~isConfigLoaded

\* the polling is over: the loading screen is gone and no interval is active
PollingOver ==
  /\ ~configIsLoading
  /\ activeTimers = { }
  /\ ConfigFound \/ ConfigGivenUp

\* no run of the effect makes more than maxAttempts attempts
AttemptsBounded ==
  \A run \in 1..Len(attemptCount) : attemptCount[run] <= maxAttempts

\* C30: configuration polling always ends. No run of the effect checks for
\* window.lamassuConfig more than 30 times, and from some point on isLoading
\* is false, no polling interval is active, and either the configuration was
\* found (config set, isConfigLoaded true) or the polling gave up (config
\* null, isConfigLoaded false).
C30_PollingEnds == []AttemptsBounded /\ <>[]PollingOver

\* the polling gave up at the thirtieth attempt and its interval is cleared
C30_Witness ==
  /\ Len(attemptCount) = 1
  /\ attemptCount[1] = maxAttempts
  /\ ConfigGivenUp
  /\ ~configIsLoading
  /\ activeTimers = { }
  /\ pollInterval[1] = 0

====
